---- MODULE Spec2Model ----
(***************************************************************************)
(* Weather forecast service: the Lambda request dispatcher with its        *)
(* embedded fetch / extract / cache pipeline (src/src/lambda_handler.py)   *)
(* and the DynamoDB cache client (src/src/weather_service/cache.py).       *)
(*                                                                         *)
(* Time is the Unix clock in whole seconds.  A timestamp string is a       *)
(* record [kind, wall, off]: kind "Z" is "...T..Z", "offset" carries a     *)
(* UTC offset of off seconds, "naive" has no zone, "bad" does not parse;   *)
(* wall is the wall-clock reading in seconds, so the instant is wall-off.  *)
(***************************************************************************)
EXTENDS Integers, Sequences, FiniteSets, TLC

VARIABLES
    now,        \* time.time(), whole seconds
    ticks,      \* clock advances taken so far
    cfgEnv,     \* os.environ CITIES_CONFIG (text, or Unset)
    tableEnv,   \* os.environ DYNAMODB_TABLE_NAME (text, or Unset)
    dynamo,     \* availability of the DynamoDB table: "up" or "down"
    table,      \* the DynamoDB table: city_id -> item, or NoItem
    event,      \* event of the last lambda_handler invocation
    response,   \* what that invocation returned
    handled,    \* which request handler that invocation entered
    ops,        \* I/O performed by that invocation
    cityLog,    \* per city of that invocation: where its record came from
    raised,     \* exception raised while serving that invocation, or None
    reqs,       \* invocations so far
    ttlSeconds, \* DynamoDBWeatherCache.ttl_seconds
    cacheOp,    \* last DynamoDBWeatherCache operation and its outcome
    written,    \* per city: the last set_cached_weather that succeeded, while
                \* no delete and no other writer has touched the city since
    limiter,    \* the client's RateLimiter: _requests and the holder of _lock
    fetch,      \* per task: its get_weather_forecast call, where it stands
    grantLog,   \* time.time() of every grant of RateLimiter.acquire, in order
    provider,   \* what a request meets at the provider now, and its changes
    client,     \* the attributes WeatherAPIClient.__init__ stored in the instance
    procOp,     \* last WeatherProcessor operation and its outcome
    calc        \* a function of the program under evaluation: its arguments,
                \* and its result once it has returned

vars == <<now, ticks, cfgEnv, tableEnv, dynamo, table, event, response,
          handled, ops, cityLog, raised, reqs, ttlSeconds, cacheOp, written,
          limiter, fetch, grantLog, provider, client, procOp, calc>>

lambdaVars == <<event, response, handled, ops, cityLog, raised, reqs>>
cacheVars  == <<ttlSeconds, cacheOp, written>>
envVars    == <<cfgEnv, tableEnv>>
clientVars == <<limiter, fetch, grantLog, provider, client>>
procVars   == <<procOp, calc>>

-----------------------------------------------------------------------------
(* Bounds of the model *)

MaxRequests == 2
MaxTicks == 2
MaxFaults == 1
MaxCacheOps == 3
MaxCacheCities == 1

(* Program constants *)

LAMBDA_TTL == 3600
DEFAULT_TTL_SECONDS == 3600
SECONDS_PER_DAY == 24 * 3600
NOON == 12 * 3600

Unset == "<unset>"
Missing == "<missing>"
NoItem == [absent |-> TRUE]
None == [none |-> TRUE]

-----------------------------------------------------------------------------
(* Timestamps *)

ZStamp(t) == [kind |-> "Z", wall |-> t, off |-> 0]

\* datetime.now(timezone.utc).strftime('%Y-%m-%dT%H:%M:%SZ')
NowStamp(t) == ZStamp(t)

\* datetime.fromisoformat(s.replace('Z', '+00:00')) raises ValueError unless
\* Parses(s); otherwise it denotes the instant ParseInstant(s)
Parses(s) == s.kind # "bad"
ParseInstant(s) == s.wall - s.off

TomorrowNoon(t) == ((t \div SECONDS_PER_DAY) + 1) * SECONDS_PER_DAY + NOON

Abs(x) == IF x < 0 THEN -x ELSE x

-----------------------------------------------------------------------------
(* City configuration *)

City(i, n, c, lat, lon) ==
    [id |-> i, name |-> n, country |-> c,
     coordinates |-> [latitude |-> lat, longitude |-> lon]]

\* coordinates in 1/10000 degree
DEFAULT_CITIES ==
    << City("oslo", "Oslo", "Norway", 599139, 107522),
       City("paris", "Paris", "France", 488566, 23522),
       City("london", "London", "United Kingdom", 515074, -1278),
       City("barcelona", "Barcelona", "Spain", 413851, 21734) >>

\* The CITIES_CONFIG texts of the model and what json.loads makes of them.
ConfigTexts ==
    { "not json", "[tokyo]", "null", "[{no id}]", "[{no name}]",
      "[{no coordinates}]", "[]" }

JsonLoadsConfig(text) ==
    CASE text = "not json" -> [t |-> "JSONDecodeError"]
      [] text = "[tokyo]" ->
            [t |-> "list", v |-> << City("tokyo", "Tokyo", "Japan", 356762, 1396503) >>]
      [] text = "null" -> [t |-> "null"]
      [] text = "[{no id}]" ->
            [t |-> "list",
             v |-> << [name |-> "Oslo", country |-> "Norway",
                       coordinates |-> [latitude |-> 599139, longitude |-> 107522]] >>]
      [] text = "[{no name}]" ->
            [t |-> "list",
             v |-> << [id |-> "oslo", country |-> "Norway",
                       coordinates |-> [latitude |-> 599139, longitude |-> 107522]] >>]
      [] text = "[{no coordinates}]" ->
            [t |-> "list",
             v |-> << [id |-> "oslo", name |-> "Oslo", country |-> "Norway"] >>]
      [] text = "[]" -> [t |-> "list", v |-> << >>]

\* lambda_handler.get_cities_config, the try block: loaded is what
\* json.loads(cities_config) returned or raised
CitiesFromJson(loaded) ==
    IF loaded.t = "JSONDecodeError"
    THEN [t |-> "list", v |-> DEFAULT_CITIES]
    ELSE loaded

\* lambda_handler.get_cities_config
get_cities_config(env) ==
    IF env = Unset
    THEN [t |-> "list", v |-> DEFAULT_CITIES]
    ELSE CitiesFromJson(JsonLoadsConfig(env))

\* weather_service.config.DEFAULT_CITIES_CONFIG: the same four cities
DEFAULT_CITIES_CONFIG == DEFAULT_CITIES

\* What building CityConfig(id=city_data["id"], ..., coordinates=Coordinates(...))
\* from one element of the loaded value comes to (config.py 61-69).
CityConfigOutcome(city_data) ==
    IF "py" \in DOMAIN city_data THEN "TypeError"
    ELSE IF ~({"id", "name", "country", "coordinates"} \subseteq DOMAIN city_data)
    THEN "KeyError"
    ELSE IF ~({"latitude", "longitude"} \subseteq DOMAIN city_data.coordinates)
    THEN "KeyError"
    ELSE IF \/ city_data.coordinates.latitude < -900000
            \/ city_data.coordinates.latitude > 900000
            \/ city_data.coordinates.longitude < -1800000
            \/ city_data.coordinates.longitude > 1800000
    THEN "ValueError"
    ELSE IF city_data.id = "" \/ city_data.name = "" \/ city_data.country = ""
    THEN "ValueError"
    ELSE "ok"

CityIds == {"oslo", "paris", "london", "barcelona", "tokyo"}

-----------------------------------------------------------------------------
(* The provider (api.met.no) *)

\* What one call of fetch_weather_data meets.
FetchOutcomes == {"network_error", "ok", "empty"}

Entry(t, temp10, sym) ==
    [time |-> ZStamp(t), air_temperature |-> temp10, symbol_code |-> sym]

\* The body the provider returns at time t (temperatures in tenths of a degree).
Payload(kind, t) ==
    IF kind = "ok"
    THEN [meta |-> [updated_at |-> ZStamp(t - (t % LAMBDA_TTL))],
          timeseries |-> << Entry(t - (t % LAMBDA_TTL), 125, "cloudy"),
                            Entry(TomorrowNoon(t), 155, "partlycloudy_day"),
                            Entry(TomorrowNoon(t) + LAMBDA_TTL, 205, "rain") >>]
    ELSE [meta |-> [x |-> 0], timeseries |-> << >>]

\* A rounding that takes exact halves upwards.
PyRound_HalfUp(temp10) == (temp10 + 5) \div 10

\* round(): to the nearest integer, exact halves to the even neighbour
\* (the argument is in tenths of a degree)
PyRound(temp10) ==
    LET q == temp10 \div 10
        r == temp10 % 10
    IN  IF r < 5 THEN q
        ELSE IF r > 5 THEN q + 1
        ELSE IF q % 2 = 0 THEN q ELSE q + 1

\* The keys of condition_map that occur in the symbol code as substrings.
KeysIn(sym) ==
    CASE sym = "cloudy" -> {"cloudy"}
      [] sym = "partlycloudy_day" -> {"partlycloudy", "cloudy"}
      [] sym = "rain" -> {"rain"}
      [] sym = "clearsky_day" -> {"clearsky"}
      [] OTHER -> {}

condition_map ==
    << <<"clearsky", "clear">>, <<"fair", "partly_cloudy">>,
       <<"partlycloudy", "partly_cloudy">>, <<"cloudy", "cloudy">>,
       <<"rain", "rain">>, <<"snow", "snow">>, <<"fog", "fog">> >>

\* for key, value in condition_map.items(): if key in symbol_code: ... break
ConditionOf(sym) ==
    LET hits == {i \in 1..Len(condition_map) : condition_map[i][1] \in KeysIn(sym)}
    IN  IF hits = {} THEN "unknown"
        ELSE condition_map[CHOOSE i \in hits : \A j \in hits : i <= j][2]

\* symbol_code.replace("_", " ").title()
Title(sym) ==
    CASE sym = "cloudy" -> "Cloudy"
      [] sym = "partlycloudy_day" -> "Partlycloudy Day"
      [] sym = "rain" -> "Rain"
      [] sym = "clearsky_day" -> "Clearsky Day"
      [] OTHER -> "Unknown"

WeatherServiceError(m) == [type |-> "WeatherServiceError", msg |-> m]
KeyError(k) == [type |-> "KeyError", msg |-> k]
TypeError(m) == [type |-> "TypeError", msg |-> m]
AttributeError(m) == [type |-> "AttributeError", msg |-> m]

\* A loop in which a later entry replaces the best one when as near.
RECURSIVE BestEntry_Last(_, _, _, _)
BestEntry_Last(series, target, i, best) ==
    IF i > Len(series) THEN best
    ELSE LET d == Abs(ParseInstant(series[i].time) - target)
         IN  IF best = 0 \/ d <= Abs(ParseInstant(series[best].time) - target)
             THEN BestEntry_Last(series, target, i + 1, i)
             ELSE BestEntry_Last(series, target, i + 1, best)

\* The loop of extract_tomorrow_forecast: index of the entry nearest to the
\* target; a later entry replaces the best one only when strictly nearer.
RECURSIVE BestEntry(_, _, _, _)
BestEntry(series, target, i, best) ==
    IF i > Len(series) THEN best
    ELSE LET d == Abs(ParseInstant(series[i].time) - target)
         IN  IF best = 0 \/ d < Abs(ParseInstant(series[best].time) - target)
             THEN BestEntry(series, target, i + 1, i)
             ELSE BestEntry(series, target, i + 1, best)

\* lambda_handler.extract_tomorrow_forecast
extract_tomorrow_forecast(weather_data, t) ==
    LET timeseries == weather_data.timeseries
        api_timestamp ==
            IF "updated_at" \in DOMAIN weather_data.meta
            THEN weather_data.meta.updated_at
            ELSE IF Len(timeseries) > 0 /\ "time" \in DOMAIN timeseries[1]
                 THEN timeseries[1].time
                 ELSE None
    IN  IF Len(timeseries) = 0
        THEN [exc |-> WeatherServiceError("Failed to extract forecast: No timeseries data found")]
        ELSE IF \E i \in 1..Len(timeseries) :
                   \/ "time" \notin DOMAIN timeseries[i]
                   \/ timeseries[i].time.kind \in {"bad", "naive"}
             THEN [exc |-> WeatherServiceError("Failed to extract forecast: bad time")]
             ELSE LET best == timeseries[BestEntry(timeseries, TomorrowNoon(t), 1, 0)]
                  IN  [exc |-> None,
                       forecast |->
                          [temperature |-> [value |-> PyRound(best.air_temperature),
                                            unit |-> "celsius"],
                           condition |-> ConditionOf(best.symbol_code),
                           description |-> Title(best.symbol_code)],
                       api_timestamp |-> api_timestamp]

-----------------------------------------------------------------------------
(* The DynamoDB cache of the Lambda handler *)

EmptyTable == [c \in CityIds |-> NoItem]

\* lambda_handler.get_cached_weather_data: the cached record, or None
get_cached_weather_data(city_id, tbl, t, tblEnv, dyn) ==
    IF tblEnv = Unset THEN None
    ELSE IF dyn = "down" THEN None
    ELSE IF tbl[city_id] = NoItem THEN None
    ELSE LET item == tbl[city_id]
             ttl == IF "ttl" \in DOMAIN item THEN item.ttl.N ELSE 0
         IN  IF ttl <= t THEN None
             ELSE IF {"city_id", "city_name", "country", "forecast", "last_updated"}
                        \subseteq DOMAIN item
                  THEN [cityId |-> item.city_id.S,
                        cityName |-> item.city_name.S,
                        country |-> item.country.S,
                        forecast |-> item.forecast.S.json,
                        lastUpdated |-> item.last_updated.S]
                  ELSE None

\* A cache write whose item expires the moment it is written.
cache_weather_data_Expired(city_data, tbl, t, tblEnv, dyn) ==
    IF tblEnv = Unset THEN [ok |-> FALSE, table |-> tbl]
    ELSE IF dyn # "up" THEN [ok |-> FALSE, table |-> tbl]
    ELSE [ok |-> TRUE,
          table |-> [tbl EXCEPT ![city_data.cityId] =
                        [city_id |-> [S |-> city_data.cityId],
                         city_name |-> [S |-> city_data.cityName],
                         country |-> [S |-> city_data.country],
                         forecast |-> [S |-> [json |-> city_data.forecast]],
                         last_updated |-> [S |-> city_data.lastUpdated],
                         ttl |-> [N |-> t]]]]

\* lambda_handler.cache_weather_data: [ok, table]
cache_weather_data(city_data, tbl, t, tblEnv, dyn) ==
    IF tblEnv = Unset THEN [ok |-> FALSE, table |-> tbl]
    ELSE IF dyn # "up" THEN [ok |-> FALSE, table |-> tbl]
    ELSE [ok |-> TRUE,
          table |-> [tbl EXCEPT ![city_data.cityId] =
                        [city_id |-> [S |-> city_data.cityId],
                         city_name |-> [S |-> city_data.cityName],
                         country |-> [S |-> city_data.country],
                         forecast |-> [S |-> [json |-> city_data.forecast]],
                         last_updated |-> [S |-> city_data.lastUpdated],
                         ttl |-> [N |-> t + LAMBDA_TTL]]]]

\* lambda_handler.fetch_weather_data
fetch_weather_data(outcome, t) ==
    IF outcome = "network_error"
    THEN [exc |-> WeatherServiceError("Failed to fetch weather data: network error")]
    ELSE [exc |-> None, data |-> Payload(outcome, t)]

\* The lastUpdated of a freshly fetched record (process_city_weather_with_cache)
LastUpdatedOf(api_timestamp, t) ==
    IF api_timestamp = None THEN NowStamp(t)
    ELSE IF api_timestamp.kind = "bad" THEN NowStamp(t)
    ELSE IF api_timestamp.kind = "Z" THEN api_timestamp
    ELSE ZStamp(api_timestamp.wall)

FallbackRecord(city_config, t, e) ==
    [cityId |-> city_config.id,
     cityName |-> city_config.name,
     country |-> city_config.country,
     forecast |-> [temperature |-> [value |-> 0, unit |-> "celsius"],
                   condition |-> "unknown",
                   description |-> "Data unavailable"],
     lastUpdated |-> NowStamp(t),
     error |-> e.msg]

NoIO == [reads |-> 0, writes |-> 0, fetches |-> 0, sleeps |-> 0]

\* An except branch that writes the record it returns to the cache.
CityFailed_Cached(city_config, tbl, t, e, io) ==
    IF {"name", "country"} \subseteq DOMAIN city_config
    THEN [exc |-> None, rec |-> FallbackRecord(city_config, t, e),
          table |-> cache_weather_data(FallbackRecord(city_config, t, e), tbl, t,
                                       tableEnv, dynamo).table,
          src |-> "fallback", met |-> IF io.fetches = 0 THEN "none" ELSE e.type,
          stored |-> cache_weather_data(FallbackRecord(city_config, t, e), tbl, t,
                                        tableEnv, dynamo).ok,
          io |-> io]
    ELSE [exc |-> KeyError("name"), table |-> tbl, io |-> io]

\* An except branch that lets the failure of one city escape.
CityFailed_Abort(city_config, tbl, t, e, io) ==
    [exc |-> e, table |-> tbl, io |-> io]

\* The except branch of process_city_weather_with_cache
CityFailed(city_config, tbl, t, e, io) ==
    IF {"name", "country"} \subseteq DOMAIN city_config
    THEN [exc |-> None, rec |-> FallbackRecord(city_config, t, e), table |-> tbl,
          src |-> "fallback", met |-> IF io.fetches = 0 THEN "none" ELSE e.type,
          stored |-> FALSE, io |-> io]
    ELSE [exc |-> KeyError("name"), table |-> tbl, io |-> io]

\* process_city_weather_with_cache, the record being built: the cache write
StoreFetched(city_weather, tbl, t, tblEnv, dyn, io) ==
    [exc |-> None, rec |-> city_weather,
     table |-> cache_weather_data(city_weather, tbl, t, tblEnv, dyn).table,
     src |-> "api", met |-> "ok",
     stored |-> cache_weather_data(city_weather, tbl, t, tblEnv, dyn).ok,
     io |-> [io EXCEPT !.writes = IF tblEnv = Unset THEN 0 ELSE 1]]

\* process_city_weather_with_cache, once extract_tomorrow_forecast is through
AfterExtract(city_config, tbl, t, tblEnv, dyn, extracted, io) ==
    IF extracted.exc # None
    THEN CityFailed(city_config, tbl, t, extracted.exc, io)
    ELSE IF "name" \notin DOMAIN city_config
    THEN CityFailed(city_config, tbl, t, KeyError("name"), io)
    ELSE StoreFetched([cityId |-> city_config.id,
                       cityName |-> city_config.name,
                       country |-> city_config.country,
                       forecast |-> extracted.forecast,
                       lastUpdated |-> LastUpdatedOf(extracted.api_timestamp, t)],
                      tbl, t, tblEnv, dyn, io)

\* process_city_weather_with_cache, once fetch_weather_data is through
AfterFetch(city_config, tbl, t, tblEnv, dyn, fetched, io) ==
    IF fetched.exc # None
    THEN CityFailed(city_config, tbl, t, fetched.exc, io)
    ELSE AfterExtract(city_config, tbl, t, tblEnv, dyn,
                      extract_tomorrow_forecast(fetched.data, t), io)

\* process_city_weather_with_cache, once get_cached_weather_data is through
AfterLookup(city_config, tbl, t, outcome, tblEnv, dyn, cached, io) ==
    IF cached # None
    THEN [exc |-> None, rec |-> cached, table |-> tbl, src |-> "cache",
          met |-> "none", stored |-> FALSE, io |-> io]
    ELSE IF "coordinates" \notin DOMAIN city_config
    THEN CityFailed(city_config, tbl, t, KeyError("coordinates"), io)
    ELSE AfterFetch(city_config, tbl, t, tblEnv, dyn,
                    fetch_weather_data(outcome, t), [io EXCEPT !.fetches = 1])

\* lambda_handler.process_city_weather_with_cache
process_city_weather_with_cache(city_config, tbl, t, outcome, tblEnv, dyn) ==
    IF "id" \notin DOMAIN city_config
    THEN [exc |-> KeyError("id"), table |-> tbl, io |-> NoIO]
    ELSE AfterLookup(city_config, tbl, t, outcome, tblEnv, dyn,
                     get_cached_weather_data(city_config.id, tbl, t, tblEnv, dyn),
                     [NoIO EXCEPT !.reads = IF tblEnv = Unset THEN 0 ELSE 1])

\* The blocking operations (DynamoDB calls, fetches, sleeps) an invocation has
\* been through: get_weather_summary and all it calls are plain functions, so
\* each of them is over before the next statement runs.
Elapsed(io) == io.reads + io.writes + io.fetches + io.sleeps

AddIO(a, b) ==
    [reads |-> a.reads + b.reads, writes |-> a.writes + b.writes,
     fetches |-> a.fetches + b.fetches, sleeps |-> a.sleeps + b.sleeps]

\* One pass of the loop of get_weather_summary: the record r.rec of the city
\* with the given id joins acc, which carries cities_weather, has_errors,
\* most_recent_update (a set: empty for None), the table, the I/O done and
\* the per-city log.
Accumulate(acc, r, id, t) ==
    LET failed == "error" \in DOMAIN r.rec
        stamp == ParseInstant(r.rec.lastUpdated)
        recent == IF ~Parses(r.rec.lastUpdated) THEN acc.most_recent_update
                  ELSE IF acc.most_recent_update = {} THEN {stamp}
                  ELSE IF \A m \in acc.most_recent_update : stamp > m THEN {stamp}
                  ELSE acc.most_recent_update
        io2 == AddIO(acc.io, r.io)
        io3 == IF failed THEN io2 ELSE [io2 EXCEPT !.sleeps = @ + 1]
    IN  [exc |-> None,
         cities_weather |-> Append(acc.cities_weather, r.rec),
         has_errors |-> acc.has_errors \/ failed,
         most_recent_update |-> recent,
         table |-> r.table,
         io |-> io3,
         log |-> Append(acc.log, [id |-> id, src |-> r.src, met |-> r.met,
                                  stored |-> r.stored, rec |-> r.rec, at |-> t,
                                  began |-> Elapsed(acc.io),
                                  ended |-> Elapsed(io3),
                                  slept |-> io3.sleeps - io2.sleeps])]

\* The loop of get_weather_summary over the configured cities, from city i on;
\* SummaryStep is the loop body, r being what the city's pipeline returned.
RECURSIVE SummaryLoop(_, _, _, _, _, _, _)
SummaryStep(cities, i, acc, r, t, w, tblEnv, dyn) ==
    IF r.exc # None
    THEN [acc EXCEPT !.exc = r.exc, !.table = r.table, !.io = AddIO(acc.io, r.io)]
    ELSE SummaryLoop(cities, i + 1, Accumulate(acc, r, cities[i].id, t),
                     t, w, tblEnv, dyn)

SummaryLoop(cities, i, acc, t, w, tblEnv, dyn) ==
    IF i > Len(cities) THEN acc
    ELSE SummaryStep(cities, i, acc,
             process_city_weather_with_cache(cities[i], acc.table, t, w[i],
                                             tblEnv, dyn),
             t, w, tblEnv, dyn)

\* A summary whose status ignores the failures of the cities.
SummaryOf_AlwaysSuccess(done, t) ==
    IF done.exc # None
    THEN [exc |-> done.exc, table |-> done.table, io |-> done.io, log |-> done.log]
    ELSE [exc |-> None,
          summary |->
             [cities |-> done.cities_weather,
              lastUpdated |-> IF done.most_recent_update # {}
                              THEN ZStamp(CHOOSE m \in done.most_recent_update : TRUE)
                              ELSE NowStamp(t),
              status |-> "success",
              hasErrors |-> done.has_errors],
          table |-> done.table, io |-> done.io, log |-> done.log]

\* get_weather_summary after its loop: the summary it returns
SummaryOf(done, t) ==
    IF done.exc # None
    THEN [exc |-> done.exc, table |-> done.table, io |-> done.io, log |-> done.log]
    ELSE [exc |-> None,
          summary |->
             [cities |-> done.cities_weather,
              lastUpdated |-> IF done.most_recent_update # {}
                              THEN ZStamp(CHOOSE m \in done.most_recent_update : TRUE)
                              ELSE NowStamp(t),
              status |-> IF ~done.has_errors THEN "success" ELSE "partial_failure",
              hasErrors |-> done.has_errors],
          table |-> done.table, io |-> done.io, log |-> done.log]

\* lambda_handler.get_weather_summary: [exc, summary, table, io, log]
get_weather_summary(env, tbl, t, w, tblEnv, dyn) ==
    IF get_cities_config(env).t # "list"
    THEN [exc |-> TypeError("'NoneType' object is not iterable"),
          table |-> tbl, io |-> NoIO, log |-> << >>]
    ELSE SummaryOf(SummaryLoop(get_cities_config(env).v, 1,
                       [exc |-> None, cities_weather |-> << >>,
                        has_errors |-> FALSE, most_recent_update |-> {},
                        table |-> tbl, io |-> NoIO, log |-> << >>],
                       t, w, tblEnv, dyn),
                   t)

-----------------------------------------------------------------------------
(* The cache client (weather_service/cache.py) and the records it stores   *)
(* (weather_service/models.py).  A float is [float |-> tenths or 1/10000], *)
(* a DynamoDB Decimal is [decimal |-> the same digits].                    *)

Float(x) == [float |-> x]
Decimal(x) == [decimal |-> x]

\* date.today(), as a day number
Today(t) == t \div SECONDS_PER_DAY

Temperatures == {155, -25}

\* The CityWeatherData that transformers.parse_met_no_response builds at t
CityWeatherData(city, temp10, t) ==
    [city_id |-> city.id,
     city_name |-> city.name,
     country |-> city.country,
     coordinates |-> [latitude |-> Float(city.coordinates.latitude),
                      longitude |-> Float(city.coordinates.longitude)],
     forecast |-> [date |-> Today(t) + 1,
                   temperature |-> [value |-> Float(temp10), unit |-> "celsius"],
                   condition |-> "partlycloudy",
                   description |-> "Partly cloudy",
                   icon |-> "partly_cloudy_day",
                   humidity |-> 60,
                   wind_speed |-> Float(35)],
     last_updated |-> [kind |-> "naive", wall |-> t, off |-> 0],
     ttl |-> t + 3600]

\* models.CityWeatherData.to_dict
to_dict(d) ==
    [cityId |-> d.city_id,
     cityName |-> d.city_name,
     country |-> d.country,
     coordinates |-> [latitude |-> d.coordinates.latitude,
                      longitude |-> d.coordinates.longitude],
     forecast |-> [date |-> [isoformat |-> d.forecast.date],
                   temperature |-> [value |-> d.forecast.temperature.value,
                                    unit |-> d.forecast.temperature.unit],
                   condition |-> d.forecast.condition,
                   description |-> d.forecast.description,
                   icon |-> d.forecast.icon,
                   humidity |-> d.forecast.humidity,
                   windSpeed |-> d.forecast.wind_speed],
     lastUpdated |-> [isoformat |-> d.last_updated],
     ttl |-> d.ttl]

\* models.CityWeatherData.from_dict at time t: [exc, data]
from_dict(data, t) ==
    IF data.forecast.date.isoformat < Today(t)
    THEN [exc |-> [type |-> "ValueError", msg |-> "Forecast date cannot be in the past"]]
    ELSE [exc |-> None,
          data |-> [city_id |-> data.cityId,
                    city_name |-> data.cityName,
                    country |-> data.country,
                    coordinates |-> [latitude |-> data.coordinates.latitude,
                                     longitude |-> data.coordinates.longitude],
                    forecast |-> [date |-> data.forecast.date.isoformat,
                                  temperature |-> [value |-> data.forecast.temperature.value,
                                                   unit |-> data.forecast.temperature.unit],
                                  condition |-> data.forecast.condition,
                                  description |-> data.forecast.description,
                                  icon |-> data.forecast.icon,
                                  humidity |-> data.forecast.humidity,
                                  wind_speed |-> data.forecast.windSpeed],
                    last_updated |-> data.lastUpdated.isoformat,
                    ttl |-> data.ttl]]

\* convert_floats and convert_decimals on one value
convert_floats(v) == IF DOMAIN v = {"float"} THEN Decimal(v.float) ELSE v
convert_decimals(v) == IF DOMAIN v = {"decimal"} THEN Float(v.decimal) ELSE v

\* cache._serialize_weather_data
_serialize_weather_data(weather_data) ==
    LET data_dict == to_dict(weather_data)
    IN  [data_dict EXCEPT
            !.coordinates.latitude = convert_floats(@),
            !.coordinates.longitude = convert_floats(@),
            !.forecast.temperature.value = convert_floats(@),
            !.forecast.windSpeed = convert_floats(@)]

CacheOperationError(m) == [type |-> "CacheOperationError", msg |-> m]
CacheConnectionError(m) == [type |-> "CacheConnectionError", msg |-> m]

\* What a cache operation raises when the store is not "up": boto3 cannot
\* create the resource or the table reference and _get_table raises
\* CacheConnectionError inside the try block of the operation ("no resource"),
\* the call raises ClientError with ResourceNotFoundException ("no table") or
\* with another code ("down"), or a BotoCoreError ("unreachable").
StoreError(dyn, failed) ==
    CASE dyn = "no resource" ->
            CacheOperationError("Unexpected cache error: Failed to create table reference")
      [] dyn = "no table" -> CacheConnectionError("Cache table not found")
      [] dyn = "unreachable" -> CacheConnectionError("AWS connection error")
      [] OTHER -> CacheOperationError(failed)

\* cache._deserialize_weather_data at time t: [exc, data]
_deserialize_weather_data(cache_item, t) ==
    IF "weather_data" \notin DOMAIN cache_item
    THEN [exc |-> CacheOperationError("Failed to deserialize weather data")]
    ELSE LET weather_dict ==
                 [cache_item.weather_data EXCEPT
                     !.coordinates.latitude = convert_decimals(@),
                     !.coordinates.longitude = convert_decimals(@),
                     !.forecast.temperature.value = convert_decimals(@),
                     !.forecast.windSpeed = convert_decimals(@)]
             made == from_dict(weather_dict, t)
         IN  IF made.exc # None
             THEN [exc |-> CacheOperationError("Failed to deserialize weather data")]
             ELSE made

\* cache._calculate_ttl
_calculate_ttl(t, ttl_seconds) == t + ttl_seconds

\* An expiry test that keeps an entry through the second its ttl names.
_is_expired_Late(ttl_timestamp, t) == t > ttl_timestamp

\* cache._is_expired
_is_expired(ttl_timestamp, t) == t >= ttl_timestamp

\* cache.delete_cached_weather: [exc, result, table]
delete_cached_weather(city_id, tbl, dyn) ==
    IF dyn # "up"
    THEN [exc |-> StoreError(dyn, "Failed to delete cached weather"), table |-> tbl]
    ELSE [exc |-> None, result |-> TRUE, table |-> [tbl EXCEPT ![city_id] = NoItem]]

\* The loop of get_all_cached_weather keeps an item that has expired.
ScanKeeps_Expired(item, t) == _deserialize_weather_data(item, t).exc = None

\* The loop of get_all_cached_weather keeps the item: it has not expired and
\* it can be deserialized.
ScanKeeps(item, t) ==
    /\ ~_is_expired(IF "ttl" \in DOMAIN item THEN item.ttl ELSE 0, t)
    /\ _deserialize_weather_data(item, t).exc = None

\* The list the loop builds from the items the scans returned.
ScanResult(kept, t) ==
    [i \in 1..Len(kept) |-> _deserialize_weather_data(kept[i], t).data]

\* cache.get_all_cached_weather, items being what the scans return: [exc, result]
get_all_cached_weather(items, t, dyn) ==
    IF dyn # "up"
    THEN [exc |-> StoreError(dyn, "Failed to get all cached weather")]
    ELSE [exc |-> None,
          result |-> ScanResult(SelectSeq(items, LAMBDA item : ScanKeeps(item, t)), t)]

\* cache.get_cached_weather: [exc, result, table, item]
get_cached_weather(city_id, tbl, t, dyn) ==
    IF dyn # "up"
    THEN [exc |-> StoreError(dyn, "Failed to get cached weather"),
          table |-> tbl, item |-> NoItem]
    ELSE IF tbl[city_id] = NoItem
    THEN [exc |-> None, result |-> None, table |-> tbl, item |-> NoItem]
    ELSE LET item == tbl[city_id]
             ttl_timestamp == IF "ttl" \in DOMAIN item THEN item.ttl ELSE 0
             weather_data == _deserialize_weather_data(item, t)
         IN  IF _is_expired(ttl_timestamp, t)
             THEN [exc |-> None, result |-> None,
                   table |-> delete_cached_weather(city_id, tbl, dyn).table,
                   item |-> item]
             ELSE IF weather_data.exc # None
             THEN [exc |-> CacheOperationError("Unexpected cache error"),
                   table |-> tbl, item |-> item]
             ELSE [exc |-> None, result |-> weather_data.data, table |-> tbl,
                   item |-> item]

\* cache.set_cached_weather: [exc, result, table]
set_cached_weather(weather_data, tbl, t, ttl_seconds, dyn) ==
    IF dyn # "up"
    THEN [exc |-> StoreError(dyn, "Failed to set cached weather"), table |-> tbl]
    ELSE [exc |-> None, result |-> TRUE,
          table |-> [tbl EXCEPT ![weather_data.city_id] =
                        [city_id |-> weather_data.city_id,
                         weather_data |-> _serialize_weather_data(weather_data),
                         ttl |-> _calculate_ttl(t, ttl_seconds),
                         cached_at |-> [kind |-> "offset", wall |-> t, off |-> 0],
                         cache_version |-> "1.0"]]]

-----------------------------------------------------------------------------
(* Responses *)

NoHeaders == [h \in {} |-> ""]

ALLOW_HEADERS == "Content-Type,X-Amz-Date,Authorization,X-Api-Key,X-Amz-Security-Token"

\* lambda_handler.create_response (cache_control None is passed as Missing)
create_response(status_code, body, headers, cache_control) ==
    LET default_headers ==
            ("Content-Type" :> "application/json")
            @@ ("Access-Control-Allow-Origin" :> "*")
            @@ ("Access-Control-Allow-Headers" :> ALLOW_HEADERS)
            @@ ("Access-Control-Allow-Methods" :> "GET,OPTIONS")
        updated == headers @@ default_headers
    IN  [statusCode |-> status_code,
         headers |-> IF cache_control # Missing
                     THEN ("Cache-Control" :> cache_control) @@ updated
                     ELSE updated,
         body |-> body]

JsonBody(d) == [json |-> d]
TextBody(s) == [text |-> s]

\* An error response that is left to the default caching of the client.
create_error_response_Uncontrolled(status_code, error_message, error_type, request_id, t) ==
    create_response(status_code,
        JsonBody([error |-> [type |-> error_type, message |-> error_message,
                             timestamp |-> NowStamp(t), requestId |-> request_id]]),
        NoHeaders, Missing)

\* lambda_handler.create_error_response
create_error_response(status_code, error_message, error_type, request_id, t) ==
    LET err == [type |-> error_type, message |-> error_message,
                timestamp |-> NowStamp(t)]
        error_body ==
            [error |-> IF request_id # Missing
                       THEN [type |-> err.type, message |-> err.message,
                             timestamp |-> err.timestamp, requestId |-> request_id]
                       ELSE err]
    IN  create_response(status_code, JsonBody(error_body), NoHeaders, "max-age=0")

\* context.aws_request_id of the Lambda runtime
RequestId == "req-id"

\* A weather handler that lets browsers cache every summary for a minute.
handle_weather_request_AlwaysCached(got, t) ==
    IF got.exc = None
    THEN create_response(200,
             JsonBody([cities |-> got.summary.cities,
                       lastUpdated |-> got.summary.lastUpdated,
                       status |-> got.summary.status,
                       hasErrors |-> got.summary.hasErrors,
                       requestId |-> RequestId,
                       version |-> "1.0.0",
                       service |-> "weather-forecast-app"]),
             NoHeaders, "max-age=60")
    ELSE IF got.exc.type = "WeatherServiceError"
    THEN create_error_response(502, "Weather service temporarily unavailable",
                               "WeatherServiceError", RequestId, t)
    ELSE create_error_response(500, "Internal server error", "InternalError",
                               RequestId, t)

\* A weather handler that answers 502 when no city could be served.
handle_weather_request_AllFailed502(got, t) ==
    IF got.exc = None
          /\ \E i \in 1..Len(got.summary.cities) :
                 "error" \notin DOMAIN got.summary.cities[i]
    THEN create_response(200,
             JsonBody([cities |-> got.summary.cities,
                       lastUpdated |-> got.summary.lastUpdated,
                       status |-> got.summary.status,
                       hasErrors |-> got.summary.hasErrors,
                       requestId |-> RequestId,
                       version |-> "1.0.0",
                       service |-> "weather-forecast-app"]),
             NoHeaders,
             IF got.summary.hasErrors THEN "max-age=0" ELSE "max-age=60")
    ELSE IF got.exc = None
    THEN create_error_response(502, "Weather service temporarily unavailable",
                               "WeatherServiceError", RequestId, t)
    ELSE create_error_response(500, "Internal server error", "InternalError",
                               RequestId, t)

\* A weather handler that reports the text of the exception to the client.
handle_weather_request_Leaky(got, t) ==
    IF got.exc = None
    THEN create_response(200,
             JsonBody([cities |-> got.summary.cities,
                       lastUpdated |-> got.summary.lastUpdated,
                       status |-> got.summary.status,
                       hasErrors |-> got.summary.hasErrors,
                       requestId |-> RequestId,
                       version |-> "1.0.0",
                       service |-> "weather-forecast-app"]),
             NoHeaders,
             IF got.summary.hasErrors THEN "max-age=0" ELSE "max-age=60")
    ELSE IF got.exc.type = "WeatherServiceError"
    THEN create_error_response(502, got.exc.msg, "WeatherServiceError", RequestId, t)
    ELSE create_error_response(500, got.exc.msg, "InternalError", RequestId, t)

\* lambda_handler.handle_weather_request, given what get_weather_summary did
handle_weather_request(got, t) ==
    IF got.exc = None
    THEN LET weather_summary ==
                 [cities |-> got.summary.cities,
                  lastUpdated |-> got.summary.lastUpdated,
                  status |-> got.summary.status,
                  hasErrors |-> got.summary.hasErrors,
                  requestId |-> RequestId,
                  version |-> "1.0.0",
                  service |-> "weather-forecast-app"]
             cache_control == IF weather_summary.hasErrors THEN "max-age=0"
                              ELSE "max-age=60"
         IN  create_response(200, JsonBody(weather_summary), NoHeaders, cache_control)
    ELSE IF got.exc.type = "WeatherServiceError"
    THEN create_error_response(502, "Weather service temporarily unavailable",
                               "WeatherServiceError", RequestId, t)
    ELSE create_error_response(500, "Internal server error", "InternalError",
                               RequestId, t)

\* lambda_handler.handle_health_request
handle_health_request(t) ==
    create_response(200,
        JsonBody([status |-> "healthy", timestamp |-> NowStamp(t),
                  version |-> "1.0.0", service |-> "weather-forecast-app",
                  requestId |-> RequestId]),
        NoHeaders, "max-age=0")

\* A preflight answer without its own cache lifetime.
handle_options_request_NoCache ==
    create_response(200, TextBody(""),
        ("Access-Control-Allow-Origin" :> "*")
        @@ ("Access-Control-Allow-Headers" :> ALLOW_HEADERS)
        @@ ("Access-Control-Allow-Methods" :> "GET,OPTIONS")
        @@ ("Access-Control-Max-Age" :> "86400"),
        "max-age=0")

\* lambda_handler.handle_options_request
handle_options_request ==
    create_response(200, TextBody(""),
        ("Access-Control-Allow-Origin" :> "*")
        @@ ("Access-Control-Allow-Headers" :> ALLOW_HEADERS)
        @@ ("Access-Control-Allow-Methods" :> "GET,OPTIONS")
        @@ ("Access-Control-Max-Age" :> "86400"),
        "max-age=86400")

\* The fallback response of lambda_handler's outer except
CriticalResponse(t) ==
    [statusCode |-> 500,
     headers |-> ("Content-Type" :> "application/json")
                 @@ ("Access-Control-Allow-Origin" :> "*")
                 @@ ("Cache-Control" :> "max-age=0"),
     body |-> JsonBody([error |-> [type |-> "CriticalError",
                                   message |-> "Critical system error",
                                   timestamp |-> NowStamp(t)]])]

-----------------------------------------------------------------------------
(* The dispatcher *)

Methods == {"GET", "POST", "OPTIONS"}
Paths == {"/", "/weather", "/health", "/nope"}

\* API Gateway events (a key may be absent), and a payload that is no object.
RawEvent == [raw |-> "null"]
Events ==
    [httpMethod : Methods, path : Paths]
    \cup {[path |-> "/health"], [httpMethod |-> "POST"], RawEvent}

\* event.get("httpMethod", "GET") and event.get("path", "/")
MethodOf(ev) == IF "httpMethod" \in DOMAIN ev THEN ev.httpMethod ELSE "GET"
PathOf(ev) == IF "path" \in DOMAIN ev THEN ev.path ELSE "/"

\* A dispatcher that serves the weather summary on /weather only.
Route_WeatherPathOnly(ev) ==
    IF ev = RawEvent THEN "critical"
    ELSE IF MethodOf(ev) = "OPTIONS" THEN "options"
    ELSE IF PathOf(ev) = "/health" THEN "health"
    ELSE IF PathOf(ev) = "/weather"
         THEN IF MethodOf(ev) = "GET" THEN "weather" ELSE "405"
    ELSE "404"

\* A dispatcher that answers /health on GET only.
Route_HealthGetOnly(ev) ==
    IF ev = RawEvent THEN "critical"
    ELSE IF MethodOf(ev) = "OPTIONS" THEN "options"
    ELSE IF PathOf(ev) = "/health"
         THEN IF MethodOf(ev) = "GET" THEN "health" ELSE "405"
    ELSE IF PathOf(ev) = "/" \/ PathOf(ev) = "/weather"
         THEN IF MethodOf(ev) = "GET" THEN "weather" ELSE "405"
    ELSE "404"

\* The routing decision of lambda_handler
Route(ev) ==
    IF ev = RawEvent THEN "critical"
    ELSE IF MethodOf(ev) = "OPTIONS" THEN "options"
    ELSE IF PathOf(ev) = "/health" THEN "health"
    ELSE IF PathOf(ev) = "/" \/ PathOf(ev) = "/weather"
         THEN IF MethodOf(ev) = "GET" THEN "weather" ELSE "405"
    ELSE "404"

Quiet(tbl) == [table |-> tbl, io |-> NoIO, log |-> << >>, exc |-> None]

\* What lambda_handler returns on the weather route
WeatherRoute(got, t) ==
    [response |-> handle_weather_request(got, t), handled |-> "weather",
     table |-> got.table, io |-> got.io, log |-> got.log, exc |-> got.exc]

\* lambda_handler.lambda_handler: [response, handled, table, io, log, exc]
lambda_handler(ev, env, tbl, t, w, tblEnv, dyn) ==
    CASE Route(ev) = "critical" ->
            [response |-> CriticalResponse(t), handled |-> "none",
             table |-> tbl, io |-> NoIO, log |-> << >>,
             exc |-> AttributeError("'NoneType' object has no attribute 'get'")]
      [] Route(ev) = "options" ->
            [response |-> handle_options_request, handled |-> "options"] @@ Quiet(tbl)
      [] Route(ev) = "health" ->
            [response |-> handle_health_request(t), handled |-> "health"] @@ Quiet(tbl)
      [] Route(ev) = "weather" ->
            WeatherRoute(get_weather_summary(env, tbl, t, w, tblEnv, dyn), t)
      [] Route(ev) = "405" ->
            [response |-> create_error_response(405,
                              <<"Method ", MethodOf(ev), " not allowed">>,
                              "MethodNotAllowed", RequestId, t),
             handled |-> "none"] @@ Quiet(tbl)
      [] Route(ev) = "404" ->
            [response |-> create_error_response(404,
                              <<"Path ", PathOf(ev), " not found">>,
                              "NotFound", RequestId, t),
             handled |-> "none"] @@ Quiet(tbl)

\* What the provider answers to each configured city during one invocation:
\* at most MaxFaults cities meet a failure, or the provider is down for all.
Worlds(ev, env) ==
    LET cfg == get_cities_config(env)
        n == IF cfg.t = "list" THEN Len(cfg.v) ELSE 0
    IN  IF Route(ev) = "weather"
        THEN {w \in [1..n -> FetchOutcomes] :
                 Cardinality({i \in 1..n : w[i] # "ok"}) <= MaxFaults}
             \cup {[i \in 1..n |-> "network_error"]}
        ELSE {[i \in 1..n |-> "ok"]}

-----------------------------------------------------------------------------
(* The provider client (weather_service/api_client.py): get_weather_forecast *)
(* calls of concurrent tasks on one WeatherAPIClient, each network attempt  *)
(* behind RateLimiter.acquire and inside the backoff.on_exception retry.    *)
(* Latitude and longitude are whole degrees, altitude whole metres (a       *)
(* sequence: empty for None).                                              *)

\* RateLimiter(max_requests, time_window) of the model, window in seconds
max_requests == 2
time_window == 2

MaxTasks == 2
MaxClock == 2
MaxProviderChanges == 1

MAX_RETRIES == 3
MAX_TIME == 300
DEFAULT_RETRY_AFTER == 60

\* The attributes of WeatherAPIClient(): max_retries defaults to MAX_RETRIES
DefaultClient == [max_retries |-> MAX_RETRIES]

Tasks == 1..MaxTasks

WeatherAPIError(m) == [type |-> "WeatherAPIError", msg |-> m]
RateLimitError(m) == [type |-> "RateLimitError", msg |-> m]
APIConnectionError(m) == [type |-> "APIConnectionError", msg |-> m]
MalformedResponseError(m) == [type |-> "MalformedResponseError", msg |-> m]
ValueError(m) == [type |-> "ValueError", msg |-> m]

\* The classes an exception of the given type is an instance of.
Bases(type) ==
    CASE type = "ClientConnectionError" ->
            {"ClientConnectionError", "ClientError", "Exception"}
      [] type = "ServerTimeoutError" ->
            {"ServerTimeoutError", "ServerConnectionError", "ClientConnectionError",
             "ClientError", "TimeoutError", "Exception"}
      [] type = "ClientPayloadError" -> {"ClientPayloadError", "ClientError", "Exception"}
      [] type = "TimeoutError" -> {"TimeoutError", "Exception"}
      [] type \in {"RateLimitError", "APIConnectionError", "MalformedResponseError"} ->
            {type, "WeatherAPIError", "Exception"}
      [] type \in {"CacheConnectionError", "CacheOperationError"} ->
            {type, "CacheError", "Exception"}
      [] OTHER -> {type, "Exception"}

IsInstance(e, classes) == Bases(e.type) \cap classes # {}

\* What one session.get meets: a response, or an exception of aiohttp/asyncio.
Response(status, retry_after, body) ==
    [kind |-> "response", status |-> status, retry_after |-> retry_after,
     body |-> body]

Raises(type) == [kind |-> "raise", type |-> type, msg |-> "session.get"]

\* Bodies: a forecast, a text that is no JSON, a JSON list, and forecasts
\* without 'properties' or without 'timeseries'.  Retry-After: "" is no header.
NetworkOutcomes ==
    { Response(200, "", "forecast"), Response(200, "", "not json"),
      Response(200, "", "[]"), Response(200, "", "no properties"),
      Response(200, "", "no timeseries"), Response(404, "", "Not Found"),
      Response(429, "", "Too Many Requests"), Response(429, "1", "Too Many Requests"),
      Response(429, "300", "Too Many Requests"),
      Response(503, "", "Service Unavailable"),
      Raises("ClientConnectionError"), Raises("ServerTimeoutError"),
      Raises("TimeoutError"), Raises("ClientPayloadError") }

\* int(retry_after)
IntOf(text) == CASE text = "1" -> 1 [] text = "300" -> 300

\* The failure class of an outcome, as the specification names them.
FailureClass(o) ==
    IF o.kind = "raise"
    THEN CASE o.type = "ClientConnectionError" -> "connection error"
           [] o.type \in {"ServerTimeoutError", "TimeoutError"} -> "timeout"
           [] OTHER -> "client error"
    ELSE CASE o.status = 429 -> "HTTP 429"
           [] o.status >= 500 -> "HTTP 5xx"
           [] o.status >= 400 -> "HTTP 4xx"
           [] o.body = "not json" -> "malformed JSON"
           [] o.body = "[]" -> "not an object"
           [] o.body \in {"no properties", "no timeseries"} -> "missing field"
           [] OTHER -> "none"

\* WeatherAPIClient._should_retry
_should_retry(exception) ==
    IF IsInstance(exception, {"ClientConnectionError", "ServerTimeoutError",
                              "TimeoutError"})
    THEN TRUE
    ELSE IF IsInstance(exception, {"ClientResponseError"})
    THEN exception.status >= 500 \/ exception.status = 429
    ELSE FALSE

\* _make_request on a response: [exc, data, sleep], sleep being the
\* asyncio.sleep taken before the exception is raised
OnResponse(resp) ==
    IF resp.status = 429
    THEN [exc |-> RateLimitError("Rate limited"),
          sleep |-> IF resp.retry_after # "" THEN IntOf(resp.retry_after)
                    ELSE DEFAULT_RETRY_AFTER]
    ELSE IF 400 <= resp.status /\ resp.status < 500
    THEN [exc |-> WeatherAPIError("Client error"), sleep |-> 0]
    ELSE IF resp.status >= 500
    THEN [exc |-> APIConnectionError("Server error"), sleep |-> 0]
    ELSE IF resp.body = "not json"
    THEN [exc |-> MalformedResponseError("Invalid JSON response"), sleep |-> 0]
    ELSE [exc |-> None, data |-> resp.body, sleep |-> 0]

\* _make_request: one call of the decorated function, from session.get on
_make_request(o) ==
    IF o.kind = "response" THEN OnResponse(o)
    ELSE IF IsInstance(o, {"ClientError"})
    THEN IF _should_retry(o)
         THEN [exc |-> [type |-> o.type, msg |-> o.msg], sleep |-> 0]
         ELSE [exc |-> APIConnectionError("HTTP client error"), sleep |-> 0]
    ELSE IF IsInstance(o, {"TimeoutError"})
    THEN [exc |-> APIConnectionError("Request timeout"), sleep |-> 0]
    ELSE [exc |-> [type |-> o.type, msg |-> o.msg], sleep |-> 0]

\* A retry policy that also retries the client's own errors.
BackoffCatches_All(e) == TRUE

\* The exceptions backoff.on_exception retries
BackoffCatches(e) == IsInstance(e, {"ClientError", "TimeoutError", "RateLimitError"})

\* backoff gives up on exception e of try number tries, begun elapsed seconds
\* after the first
GiveUp(e, tries, elapsed) ==
    \/ ~BackoffCatches(e)
    \/ tries = MAX_RETRIES
    \/ elapsed >= MAX_TIME

\* backoff.expo with random_jitter: the wait after try number tries,
\* jitter being the whole seconds random.random() adds
Jitter == {0, 1}

NextWait(tries, jitter, elapsed) ==
    IF 2 ^ (tries - 1) + jitter < MAX_TIME - elapsed
    THEN 2 ^ (tries - 1) + jitter
    ELSE MAX_TIME - elapsed

\* Except clauses that let every exception through as it is.
Reraised_AsIs(e) == e

\* get_weather_forecast: what its except clauses make of an exception
Reraised(e) ==
    IF IsInstance(e, {"WeatherAPIError"}) THEN e
    ELSE WeatherAPIError("Unexpected error")

\* get_weather_forecast: the validation of the parsed response
CheckedResponse(data) ==
    CASE data = "[]" -> [exc |-> MalformedResponseError("Response is not a JSON object")]
      [] data = "no properties" ->
            [exc |-> MalformedResponseError("Response missing 'properties' field")]
      [] data = "no timeseries" ->
            [exc |-> MalformedResponseError("Response missing 'timeseries' field")]
      [] OTHER -> [exc |-> None, data |-> data]

Args(latitude, longitude, altitude) ==
    [latitude |-> latitude, longitude |-> longitude, altitude |-> altitude]

ForecastArgs ==
    { Args(90, 180, <<9000>>), Args(-90, -180, << >>),
      Args(91, 0, << >>), Args(-91, 0, << >>), Args(0, 181, << >>),
      Args(0, -181, <<100>>), Args(0, 0, <<9001>>), Args(0, 0, <<-501>>) }

\* A validation that takes any altitude.
InvalidArgument_AnyAltitude(args) ==
    \/ ~(-90 <= args.latitude /\ args.latitude <= 90)
    \/ ~(-180 <= args.longitude /\ args.longitude <= 180)

\* get_weather_forecast: the arguments it rejects with ValueError
InvalidArgument(args) ==
    \/ ~(-90 <= args.latitude /\ args.latitude <= 90)
    \/ ~(-180 <= args.longitude /\ args.longitude <= 180)
    \/ /\ args.altitude # << >>
       /\ args.altitude[1] < -500 \/ args.altitude[1] > 9000

\* A limit test that never finds the limiter full.
AtLimit_Never(requests) == FALSE

\* RateLimiter.acquire: the limit is reached
AtLimit(requests) == Len(requests) >= max_requests

\* RateLimiter.acquire: the requests younger than the time window
Recent(requests, t) == SelectSeq(requests, LAMBDA req_time : t - req_time < time_window)

\* min()
MinOf(requests) == CHOOSE m \in {requests[i] : i \in DOMAIN requests} :
                      \A i \in DOMAIN requests : m <= requests[i]

NewLimiter == [requests |-> << >>, lock |-> 0]

Healthy == [meets |-> Response(200, "", "forecast"), changes |-> 0]

NoArgs == [none |-> TRUE]

\* started: when backoff began the first try; elapsed: how long after it the
\* present try began; wake: when the present sleep ends (0 outside the call)
IdleTask ==
    [pc |-> "idle", args |-> NoArgs, tries |-> 0, started |-> 0, elapsed |-> 0,
     wake |-> 0, attempts |-> 0, grants |-> 0, waits |-> 0, met |-> {}, last |-> "",
     result |-> None]

NoProcOp == [n |-> 0, op |-> "none"]
NoCalc == [fn |-> "none"]

-----------------------------------------------------------------------------
(* The transformers (weather_service/transformers.py).  A symbol code is   *)
(* the sequence of the parts that "_" separates in it: <<"rain", "2">> is  *)
(* "rain_2".  A WeatherCondition is named by its value.                    *)

\* The three variants of a base symbol that met.no tells apart by daylight
Variants(base, condition) ==
    { << <<base, v>>, condition >> : v \in {"day", "night", "polartwilight"} }

WEATHER_SYMBOL_MAPPING ==
    Variants("clearsky", "clearsky")
    \cup Variants("fair", "partlycloudy")
    \cup Variants("partlycloudy", "partlycloudy")
    \cup { << <<"cloudy">>, "cloudy" >> }
    \cup { << <<"lightrain">>, "lightrain" >> }
    \cup Variants("lightrainshowers", "lightrain")
    \cup { << <<"rain">>, "rain" >> }
    \cup Variants("rainshowers", "rain")
    \cup { << <<"heavyrain">>, "heavyrain" >> }
    \cup Variants("heavyrainshowers", "heavyrain")
    \cup { << <<"lightsnow">>, "lightsnow" >> }
    \cup Variants("lightsnowshowers", "lightsnow")
    \cup { << <<"snow">>, "snow" >> }
    \cup Variants("snowshowers", "snow")
    \cup { << <<"heavysnow">>, "heavysnow" >> }
    \cup Variants("heavysnowshowers", "heavysnow")
    \cup { << <<c>>, "thunderstorm" >> :
              c \in {"lightrainandthunder", "rainandthunder", "heavyrainandthunder",
                     "lightsnowandthunder", "snowandthunder", "heavysnowandthunder"} }
    \cup { << <<"fog">>, "fog" >> }

\* WEATHER_DESCRIPTIONS[condition] and WEATHER_ICONS[condition]
WEATHER_DESCRIPTIONS(condition) ==
    CASE condition = "clearsky" -> "Clear sky"
      [] condition = "partlycloudy" -> "Partly cloudy"
      [] condition = "cloudy" -> "Cloudy"
      [] condition = "lightrain" -> "Light rain"
      [] condition = "rain" -> "Rain"
      [] condition = "heavyrain" -> "Heavy rain"
      [] condition = "lightsnow" -> "Light snow"
      [] condition = "snow" -> "Snow"
      [] condition = "heavysnow" -> "Heavy snow"
      [] condition = "fog" -> "Fog"
      [] condition = "thunderstorm" -> "Thunderstorm"
      [] condition = "unknown" -> "Unknown conditions"

WEATHER_ICONS(condition) ==
    CASE condition = "clearsky" -> "clear_day"
      [] condition = "partlycloudy" -> "partly_cloudy_day"
      [] condition = "cloudy" -> "cloudy"
      [] condition = "lightrain" -> "light_rain"
      [] condition = "rain" -> "rain"
      [] condition = "heavyrain" -> "heavy_rain"
      [] condition = "lightsnow" -> "light_snow"
      [] condition = "snow" -> "snow"
      [] condition = "heavysnow" -> "heavy_snow"
      [] condition = "fog" -> "fog"
      [] condition = "thunderstorm" -> "thunderstorm"
      [] condition = "unknown" -> "unknown"

\* The parts of the model on which str.isdigit() is true
DigitStrings == {"0", "1", "2", "10"}
isdigit(part) == part \in DigitStrings

\* WEATHER_SYMBOL_MAPPING.get(base_symbol, WeatherCondition.UNKNOWN)
MappingGet(base_symbol) ==
    IF \E p \in WEATHER_SYMBOL_MAPPING : p[1] = base_symbol
    THEN (CHOOSE p \in WEATHER_SYMBOL_MAPPING : p[1] = base_symbol)[2]
    ELSE "unknown"

\* A mapping that looks the whole code up, suffix and all.
map_weather_symbol_Whole(symbol_code) == MappingGet(symbol_code)

\* transformers.map_weather_symbol
map_weather_symbol(symbol_code) ==
    IF Len(symbol_code) >= 2 /\ isdigit(symbol_code[Len(symbol_code)])
    THEN MappingGet(SubSeq(symbol_code, 1, Len(symbol_code) - 1))
    ELSE MappingGet(symbol_code)

-----------------------------------------------------------------------------
(* The processor (weather_service/processor.py) over the cache client and   *)
(* the provider client.  A result is [exc, result, table, lookup]: lookup   *)
(* tells what the cache lookup of the call came to.                        *)

\* The cities of weather_service.config.CITIES_CONFIG in the model
MaxProcCities == 2

CITIES_CONFIG == SubSeq(DEFAULT_CITIES, 1, MaxProcCities)

ValidationError(m) == [type |-> "ValidationError", msg |-> m]
NameError(m) == [type |-> "NameError", msg |-> m]

\* config.validate_city_id
validate_city_id(city_id) == \E i \in DOMAIN CITIES_CONFIG : CITIES_CONFIG[i].id = city_id

\* config.get_city_config
get_city_config(city_id) ==
    CITIES_CONFIG[CHOOSE i \in DOMAIN CITIES_CONFIG : CITIES_CONFIG[i].id = city_id]

\* The api_client a WeatherProcessor is constructed with: the client class of
\* the repository, or an object that has a get_weather_data method, as the
\* stubs of the tests are meant to; get_weather_data is what a call comes to.
WeatherAPIClient == [class |-> "WeatherAPIClient"]
Stub(outcome) == [class |-> "Stub", get_weather_data |-> outcome]

\* self.api_client.get_weather_data(latitude=..., longitude=...): the client
\* class has get_weather_forecast and get_weather_for_city, and no such method
get_weather_data(api_client, latitude, longitude) ==
    IF api_client.class = "WeatherAPIClient"
    THEN [exc |-> AttributeError("'WeatherAPIClient' object has no attribute 'get_weather_data'")]
    ELSE api_client.get_weather_data

\* A met.no response body: [py |-> "dict", properties |-> [timeseries |-> ...]],
\* a dict without properties, or a value that is no dict.  An entry of the
\* series is [time, air_temperature, symbol_code], any of them possibly absent.
SeriesEntry(time, temp10, symbol_code) ==
    [time |-> time, air_temperature |-> temp10, symbol_code |-> symbol_code]

Body(timeseries) == [py |-> "dict", properties |-> [timeseries |-> timeseries]]

\* api_response.get("properties", {}).get("timeseries", [])
TimeseriesOf(api_response) ==
    IF "properties" \in DOMAIN api_response
    THEN api_response.properties.timeseries
    ELSE << >>

\* transformers.validate_met_no_response
validate_met_no_response(api_response) ==
    /\ api_response.py = "dict"
    /\ TimeseriesOf(api_response) # << >>
    /\ \E i \in 1..Len(TimeseriesOf(api_response)) :
           /\ i <= 5
           /\ {"time", "air_temperature"} \subseteq DOMAIN TimeseriesOf(api_response)[i]

\* datetime.fromisoformat(entry["time"]...) of the transformers: .date(), .hour
EntryRaises(entry) == "time" \notin DOMAIN entry \/ ~Parses(entry.time)
EntryDate(entry) == entry.time.wall \div SECONDS_PER_DAY
EntryHour(entry) == (entry.time.wall % SECONDS_PER_DAY) \div 3600

\* forecast_data of an entry; air_temperature is a sequence, empty for None
ForecastData(entry) ==
    [air_temperature |-> IF "air_temperature" \in DOMAIN entry
                         THEN <<entry.air_temperature>> ELSE << >>,
     symbol_code |-> IF "symbol_code" \in DOMAIN entry
                     THEN entry.symbol_code ELSE <<"unknown">>]

FirstOf(S) == CHOOSE i \in S : \A j \in S : i <= j

\* An extraction without the window from 10 to 14 o'clock: the first entry of
\* tomorrow.
transformers_extract_tomorrow_forecast_FirstOfDay(api_response, t) ==
    LET timeseries == TimeseriesOf(api_response)
        raising == {i \in 1..Len(timeseries) : EntryRaises(timeseries[i])}
        tomorrow == {i \in 1..Len(timeseries) :
                        /\ i \notin raising
                        /\ EntryDate(timeseries[i]) = Today(t) + 1}
    IN  IF api_response.py # "dict" \/ timeseries = << >> THEN None
        ELSE IF raising # {} THEN None
        ELSE IF tomorrow # {} THEN ForecastData(timeseries[FirstOf(tomorrow)])
        ELSE None

\* transformers.extract_tomorrow_forecast: the first entry of tomorrow between
\* 10 and 14 o'clock, else the first entry of tomorrow, else None; an entry
\* that raises before the loop has returned makes the whole call return None.
transformers_extract_tomorrow_forecast(api_response, t) ==
    LET timeseries == TimeseriesOf(api_response)
        raising == {i \in 1..Len(timeseries) : EntryRaises(timeseries[i])}
        tomorrow == {i \in 1..Len(timeseries) :
                        /\ i \notin raising
                        /\ EntryDate(timeseries[i]) = Today(t) + 1}
        noon == {i \in tomorrow : /\ 10 <= EntryHour(timeseries[i])
                                  /\ EntryHour(timeseries[i]) <= 14}
    IN  IF api_response.py # "dict" \/ timeseries = << >> THEN None
        ELSE IF noon # {} /\ \A i \in raising : FirstOf(noon) < i
        THEN ForecastData(timeseries[FirstOf(noon)])
        ELSE IF raising # {} THEN None
        ELSE IF tomorrow # {} THEN ForecastData(timeseries[FirstOf(tomorrow)])
        ELSE None

\* The CityWeatherData parse_met_no_response builds for a condition
WeatherRecord(city, temp10, condition, t) ==
    [CityWeatherData(city, temp10, t) EXCEPT
        !.forecast.condition = condition,
        !.forecast.description = WEATHER_DESCRIPTIONS(condition),
        !.forecast.icon = WEATHER_ICONS(condition)]

\* parse_met_no_response once the forecast of tomorrow is extracted: whatever
\* is raised on the way (no forecast, Temperature of None or out of range) is
\* wrapped into a ValidationError (171-173)
ParsedFrom(tomorrow_forecast, city_id, t) ==
    IF tomorrow_forecast = None
          \/ tomorrow_forecast.air_temperature = << >>
          \/ tomorrow_forecast.air_temperature[1] < -1000
          \/ tomorrow_forecast.air_temperature[1] > 600
    THEN [exc |-> ValidationError("Failed to parse weather data")]
    ELSE [exc |-> None,
          data |-> WeatherRecord(get_city_config(city_id),
                                 tomorrow_forecast.air_temperature[1],
                                 map_weather_symbol(tomorrow_forecast.symbol_code), t)]

\* transformers.parse_met_no_response
parse_met_no_response(api_response, city_id, t) ==
    ParsedFrom(transformers_extract_tomorrow_forecast(api_response, t), city_id, t)

\* Except clauses that wrap every failure, those of the provider included.
ProcessingFailed_WrapAll(city_id, e, tbl, lookup) ==
    [exc |-> ValidationError("Failed to process weather data"),
     table |-> tbl, lookup |-> lookup, fetched |-> TRUE, stored |-> FALSE]

\* process_city_weather: the except clauses around fetch, transform and store
ProcessingFailed(city_id, e, tbl, lookup) ==
    [exc |-> IF IsInstance(e, {"WeatherAPIError", "ValidationError"}) THEN e
             ELSE ValidationError("Failed to process weather data"),
     table |-> tbl, lookup |-> lookup, fetched |-> TRUE, stored |-> FALSE]

\* A write-through that does not ask whether the cache is in use.
StoreProcessed_Always(weather_data, use_cache, tbl, t, ttl_seconds, dyn, lookup) ==
    [exc |-> None, result |-> weather_data,
     table |-> set_cached_weather(weather_data, tbl, t, ttl_seconds, dyn).table,
     lookup |-> lookup, fetched |-> TRUE, stored |-> TRUE]

\* process_city_weather: the write-through of a transformed record; an error
\* of the cache is logged and the record returned all the same
StoreProcessed(weather_data, use_cache, tbl, t, ttl_seconds, dyn, lookup) ==
    [exc |-> None, result |-> weather_data,
     table |-> IF use_cache
               THEN set_cached_weather(weather_data, tbl, t, ttl_seconds, dyn).table
               ELSE tbl,
     lookup |-> lookup, fetched |-> TRUE, stored |-> use_cache]

\* process_city_weather once the response is validated: transform and store
AfterValidate(city_id, use_cache, tbl, t, ttl_seconds, dyn, parsed, lookup) ==
    IF parsed.exc # None
    THEN ProcessingFailed(city_id, parsed.exc, tbl, lookup)
    ELSE StoreProcessed(parsed.data, use_cache, tbl, t, ttl_seconds, dyn, lookup)

\* process_city_weather from the fetch on, api_response being what the call
\* of the client came to
AfterApiCall(city_id, use_cache, tbl, t, ttl_seconds, dyn, api_response, lookup) ==
    IF api_response.exc # None
    THEN ProcessingFailed(city_id, api_response.exc, tbl, lookup)
    ELSE IF ~validate_met_no_response(api_response.data)
    THEN ProcessingFailed(city_id, ValidationError("Invalid API response structure"),
                          tbl, lookup)
    ELSE AfterValidate(city_id, use_cache, tbl, t, ttl_seconds, dyn,
                       parse_met_no_response(api_response.data, city_id, t), lookup)

\* process_city_weather once the lookup is through: cached is what
\* get_cached_weather came to
AfterCacheLookup(api_client, city_id, use_cache, tbl, t, ttl_seconds, dyn, cached) ==
    IF cached.exc = None /\ cached.result # None
    THEN [exc |-> None, result |-> cached.result, table |-> cached.table,
          lookup |-> "hit", fetched |-> FALSE, stored |-> FALSE]
    ELSE AfterApiCall(city_id, use_cache, cached.table, t, ttl_seconds, dyn,
                      get_weather_data(api_client,
                                       get_city_config(city_id).coordinates.latitude,
                                       get_city_config(city_id).coordinates.longitude),
                      IF cached.exc # None THEN "error" ELSE "miss")

\* A processor that turns to its cache before it looks at the city id.
process_city_weather_LateCheck(api_client, city_id, use_cache, tbl, t, ttl_seconds, dyn) ==
    IF ~validate_city_id(city_id)
    THEN [exc |-> ValueError("Unsupported city ID"),
          table |-> IF use_cache THEN get_cached_weather(city_id, tbl, t, dyn).table
                    ELSE tbl,
          lookup |-> IF use_cache THEN "miss" ELSE "none",
          fetched |-> FALSE, stored |-> FALSE]
    ELSE IF use_cache
    THEN AfterCacheLookup(api_client, city_id, use_cache, tbl, t, ttl_seconds, dyn,
                          get_cached_weather(city_id, tbl, t, dyn))
    ELSE AfterApiCall(city_id, use_cache, tbl, t, ttl_seconds, dyn,
                      get_weather_data(api_client,
                                       get_city_config(city_id).coordinates.latitude,
                                       get_city_config(city_id).coordinates.longitude),
                      "none")

\* WeatherProcessor.process_city_weather, api_client being self.api_client
process_city_weather(api_client, city_id, use_cache, tbl, t, ttl_seconds, dyn) ==
    IF ~validate_city_id(city_id)
    THEN [exc |-> ValueError("Unsupported city ID"), table |-> tbl, lookup |-> "none",
          fetched |-> FALSE, stored |-> FALSE]
    ELSE IF use_cache
    THEN AfterCacheLookup(api_client, city_id, use_cache, tbl, t, ttl_seconds, dyn,
                          get_cached_weather(city_id, tbl, t, dyn))
    ELSE AfterApiCall(city_id, use_cache, tbl, t, ttl_seconds, dyn,
                      get_weather_data(api_client,
                                       get_city_config(city_id).coordinates.latitude,
                                       get_city_config(city_id).coordinates.longitude),
                      "none")

\* The loops that build the task list (135-138, 179-182): process_city_weather
\* is no coroutine function, so each call runs to its end there and then, and
\* what it raises leaves the loop.  acc is [exc, tasks, table].
RECURSIVE BuildTasks(_, _, _, _, _, _, _)
BuildStep(api_client, i, acc, r, use_cache, t, ttl_seconds, dyn) ==
    IF r.exc # None
    THEN [exc |-> r.exc, tasks |-> acc.tasks, table |-> r.table]
    ELSE BuildTasks(api_client, i + 1,
                    [exc |-> None, tasks |-> Append(acc.tasks, r.result),
                     table |-> r.table],
                    use_cache, t, ttl_seconds, dyn)

BuildTasks(api_client, i, acc, use_cache, t, ttl_seconds, dyn) ==
    IF i > Len(CITIES_CONFIG) THEN acc
    ELSE BuildStep(api_client, i, acc,
                   process_city_weather(api_client, CITIES_CONFIG[i].id, use_cache, acc.table, t,
                                        ttl_seconds, dyn),
                   use_cache, t, ttl_seconds, dyn)

\* asyncio.gather(*tasks, return_exceptions=True) in a module that does not
\* import asyncio
Gather(tasks) == [exc |-> NameError("name 'asyncio' is not defined")]

\* An aggregation that hands out what it has when a city fails.
AllCitiesOf_Partial(built, results) ==
    [exc |-> None, result |-> built.tasks, table |-> built.table,
     done |-> Len(built.tasks)]

\* process_all_cities_weather after its first loop: built is the task list,
\* results what gather came to
AllCitiesOf(built, results) ==
    IF built.exc # None THEN [exc |-> built.exc, table |-> built.table,
          done |-> Len(built.tasks)]
    ELSE IF results.exc # None THEN [exc |-> results.exc, table |-> built.table,
          done |-> Len(built.tasks)]
    ELSE IF \E i \in DOMAIN results.v : "type" \in DOMAIN results.v[i]
    THEN [exc |-> results.v[CHOOSE i \in DOMAIN results.v :
                                /\ "type" \in DOMAIN results.v[i]
                                /\ \A j \in 1..(i - 1) : "type" \notin DOMAIN results.v[j]],
          table |-> built.table,
          done |-> Len(built.tasks)]
    ELSE [exc |-> None, result |-> results.v, table |-> built.table,
          done |-> Len(built.tasks)]

\* WeatherProcessor.process_all_cities_weather
process_all_cities_weather(api_client, use_cache, tbl, t, ttl_seconds, dyn) ==
    AllCitiesOf(BuildTasks(api_client, 1, [exc |-> None, tasks |-> << >>, table |-> tbl],
                           use_cache, t, ttl_seconds, dyn),
                Gather(BuildTasks(api_client, 1, [exc |-> None, tasks |-> << >>, table |-> tbl],
                                  use_cache, t, ttl_seconds, dyn).tasks))

\* process_cities_weather_with_fallback after its first loop
WithFallbackOf(built, results) ==
    IF built.exc # None THEN [exc |-> built.exc, table |-> built.table,
          done |-> Len(built.tasks)]
    ELSE IF results.exc # None THEN [exc |-> results.exc, table |-> built.table,
          done |-> Len(built.tasks)]
    ELSE IF \A i \in DOMAIN results.v : "type" \in DOMAIN results.v[i]
    THEN [exc |-> WeatherAPIError("Failed to process weather data for any city"),
          table |-> built.table,
          done |-> Len(built.tasks)]
    ELSE [exc |-> None,
          result |-> SelectSeq(results.v, LAMBDA x : "type" \notin DOMAIN x),
          table |-> built.table,
          done |-> Len(built.tasks)]

\* WeatherProcessor.process_cities_weather_with_fallback
process_cities_weather_with_fallback(api_client, use_cache, tbl, t, ttl_seconds, dyn) ==
    WithFallbackOf(BuildTasks(api_client, 1, [exc |-> None, tasks |-> << >>, table |-> tbl],
                              use_cache, t, ttl_seconds, dyn),
                   Gather(BuildTasks(api_client, 1, [exc |-> None, tasks |-> << >>, table |-> tbl],
                                     use_cache, t, ttl_seconds, dyn).tasks))

-----------------------------------------------------------------------------
(* Actions *)

NoEvent == [none |-> TRUE]
NoCacheOp == [n |-> 0, op |-> "none"]

Init ==
    /\ now = 0
    /\ ticks = 0
    \* (a CITIES_CONFIG that is no JSON runs with the defaults, like none)
    /\ \/ cfgEnv = Unset /\ tableEnv \in {Unset, "weather-cache"}
       \/ cfgEnv \in ConfigTexts \ {"not json"} /\ tableEnv = "weather-cache"
    /\ dynamo = "up"
    /\ table = EmptyTable
    /\ event = NoEvent
    /\ response = None
    /\ handled = "none"
    /\ ops = NoIO
    /\ cityLog = << >>
    /\ raised = None
    /\ reqs = 0
    /\ ttlSeconds = DEFAULT_TTL_SECONDS
    /\ cacheOp = NoCacheOp
    /\ written = [c \in CityIds |-> NoItem]
    /\ limiter = NewLimiter
    /\ fetch = [k \in Tasks |-> IdleTask]
    /\ grantLog = << >>
    /\ provider = Healthy
    /\ client = DefaultClient
    /\ procOp = NoProcOp
    /\ calc = NoCalc

\* One invocation of the Lambda function.
LambdaHandler(ev, w) ==
    /\ reqs < MaxRequests
    /\ \E r \in {lambda_handler(ev, cfgEnv, table, now, w, tableEnv, dynamo)} :
           /\ response' = r.response
           /\ handled' = r.handled
           /\ table' = r.table
           /\ ops' = r.io
           /\ cityLog' = r.log
           /\ raised' = r.exc
    /\ event' = ev
    /\ reqs' = reqs + 1
    /\ UNCHANGED <<now, ticks, dynamo, envVars, cacheVars, clientVars, procVars>>

\* The clock advances between invocations.
Tick(d) ==
    /\ ticks < MaxTicks
    /\ now' = now + d
    /\ ticks' = ticks + 1
    /\ UNCHANGED <<dynamo, table, envVars, lambdaVars, cacheVars, clientVars, procVars>>

TickSteps == {1, LAMBDA_TTL - 1}

\* The DynamoDB table becomes unreachable, or reachable again.
DynamoChange ==
    /\ dynamo' = IF dynamo = "up" THEN "down" ELSE "up"
    /\ UNCHANGED <<now, ticks, table, envVars, lambdaVars, cacheVars, clientVars,
                   procVars>>

Next ==
    \/ \E ev \in Events : \E w \in Worlds(ev, cfgEnv) : LambdaHandler(ev, w)
    \/ \E d \in TickSteps : Tick(d)
    \/ DynamoChange

Spec == Init /\ [][Next]_vars

-----------------------------------------------------------------------------
(* The dispatcher with get_weather_summary replaced by a stub that raises, *)
(* as the unit tests of handle_weather_request replace it.                 *)

StubExceptions ==
    {[type |-> ty, msg |-> m] :
        ty \in {"WeatherServiceError", "Exception"},
        m \in {"API Error", "Unexpected error", "Internal server error"}}

\* One invocation on the weather route in which the stub raises e.
LambdaHandlerStubbed(ev, e) ==
    /\ reqs < MaxRequests
    /\ Route(ev) = "weather"
    /\ \E r \in {WeatherRoute([exc |-> e, table |-> table, io |-> NoIO,
                                 log |-> << >>], now)} :
           /\ response' = r.response
           /\ handled' = r.handled
           /\ table' = r.table
           /\ ops' = r.io
           /\ cityLog' = r.log
           /\ raised' = r.exc
    /\ event' = ev
    /\ reqs' = reqs + 1
    /\ UNCHANGED <<now, ticks, dynamo, envVars, cacheVars, clientVars, procVars>>

NextStubbed ==
    \/ \E ev \in Events : \E w \in Worlds(ev, cfgEnv) : LambdaHandler(ev, w)
    \/ \E ev \in Events : \E e \in StubExceptions : LambdaHandlerStubbed(ev, e)
    \/ \E d \in TickSteps : Tick(d)
    \/ DynamoChange

SpecStubbed == Init /\ [][NextStubbed]_vars

-----------------------------------------------------------------------------
(* The cache client on its own: one DynamoDBWeatherCache instance, the     *)
(* pipeline storing what it fetched, lookups, deletes, and another writer  *)
(* of the same table whose items carry no ttl attribute.                   *)

\* DynamoDBWeatherCache(ttl_seconds=...) when the default is not taken
CustomTtlSeconds == 2

CacheCities == {DEFAULT_CITIES[i] : i \in 1..MaxCacheCities}

InitCache ==
    /\ now = 0
    /\ ticks = 0
    /\ cfgEnv = Unset
    /\ tableEnv = "weather-cache"
    /\ dynamo = "up"
    /\ table = EmptyTable
    /\ event = NoEvent
    /\ response = None
    /\ handled = "none"
    /\ ops = NoIO
    /\ cityLog = << >>
    /\ raised = None
    /\ reqs = 0
    /\ ttlSeconds \in {DEFAULT_TTL_SECONDS, CustomTtlSeconds}
    /\ cacheOp = NoCacheOp
    /\ written = [c \in CityIds |-> NoItem]
    /\ limiter = NewLimiter
    /\ fetch = [k \in Tasks |-> IdleTask]
    /\ grantLog = << >>
    /\ provider = Healthy
    /\ client = DefaultClient
    /\ procOp = NoProcOp
    /\ calc = NoCalc

CacheFrame ==
    UNCHANGED <<now, ticks, dynamo, envVars, lambdaVars, ttlSeconds, clientVars, procVars>>

\* cache.set_cached_weather(CityWeatherData of city with temperature temp10)
SetCachedWeather(city, temp10) ==
    /\ cacheOp.n < MaxCacheOps
    /\ \E r \in {set_cached_weather(CityWeatherData(city, temp10, now), table, now,
                                    ttlSeconds, dynamo)} :
           /\ table' = r.table
           /\ cacheOp' = [n |-> cacheOp.n + 1, op |-> "set", city |-> city.id,
                          at |-> now, exc |-> r.exc]
           /\ written' = IF r.exc = None
                         THEN [written EXCEPT ![city.id] =
                                  [at |-> now, ttl_seconds |-> ttlSeconds,
                                   data |-> CityWeatherData(city, temp10, now)]]
                         ELSE written
    /\ CacheFrame

\* cache.get_cached_weather(city_id)
GetCachedWeather(city_id) ==
    /\ cacheOp.n < MaxCacheOps
    /\ \E r \in {get_cached_weather(city_id, table, now, dynamo)} :
           /\ table' = r.table
           /\ cacheOp' = [n |-> cacheOp.n + 1, op |-> "get", city |-> city_id,
                          at |-> now, exc |-> r.exc, item |-> r.item,
                          result |-> IF r.exc = None THEN r.result ELSE None]
    /\ UNCHANGED written
    /\ CacheFrame

\* cache.delete_cached_weather(city_id)
DeleteCachedWeather(city_id) ==
    /\ cacheOp.n < MaxCacheOps
    /\ \E r \in {delete_cached_weather(city_id, table, dynamo)} :
           /\ table' = r.table
           /\ cacheOp' = [n |-> cacheOp.n + 1, op |-> "delete", city |-> city_id,
                          at |-> now, exc |-> r.exc]
           /\ written' = IF r.exc = None THEN [written EXCEPT ![city_id] = NoItem]
                         ELSE written
    /\ CacheFrame

\* Another writer puts an item without a ttl attribute for the city.
ForeignPut(city, temp10) ==
    /\ cacheOp.n < MaxCacheOps
    /\ dynamo = "up"
    /\ table' = [table EXCEPT ![city.id] =
                    [city_id |-> city.id,
                     weather_data |->
                         _serialize_weather_data(CityWeatherData(city, temp10, now))]]
    /\ cacheOp' = [n |-> cacheOp.n + 1, op |-> "put", city |-> city.id,
                   at |-> now, exc |-> None]
    /\ written' = [written EXCEPT ![city.id] = NoItem]
    /\ CacheFrame

CacheTickSteps == {1, DEFAULT_TTL_SECONDS - 1}

NextCache ==
    \/ \E city \in CacheCities : \E temp10 \in Temperatures :
           SetCachedWeather(city, temp10)
    \/ \E city \in CacheCities : GetCachedWeather(city.id)
    \/ \E city \in CacheCities : DeleteCachedWeather(city.id)
    \/ \E city \in CacheCities : \E temp10 \in Temperatures : ForeignPut(city, temp10)
    \/ \E d \in CacheTickSteps : Tick(d)
    \/ DynamoChange

SpecCache == InitCache /\ [][NextCache]_vars

-----------------------------------------------------------------------------
(* The provider client as a state machine.  asyncio runs one task at a     *)
(* time and switches tasks at an await only, so an action is what a task   *)
(* does from one await to the next.  The sleeps end in the order of their  *)
(* wake-up times, as the timers of the event loop do; a sleep that ends    *)
(* moves the clock to its wake-up time, if the clock is not already there. *)

ClientBuilt(max_retries) ==
    /\ now = 0
    /\ ticks = 0
    /\ cfgEnv = Unset
    /\ tableEnv = "weather-cache"
    /\ dynamo = "up"
    /\ table = EmptyTable
    /\ event = NoEvent
    /\ response = None
    /\ handled = "none"
    /\ ops = NoIO
    /\ cityLog = << >>
    /\ raised = None
    /\ reqs = 0
    /\ ttlSeconds = DEFAULT_TTL_SECONDS
    /\ cacheOp = NoCacheOp
    /\ written = [c \in CityIds |-> NoItem]
    /\ limiter = NewLimiter
    /\ fetch = [k \in Tasks |-> IdleTask]
    /\ grantLog = << >>
    /\ provider \in {[meets |-> o, changes |-> 0] : o \in NetworkOutcomes}
    /\ client = [max_retries |-> max_retries]
    /\ procOp = NoProcOp
    /\ calc = NoCalc

\* WeatherAPIClient()
InitClient == ClientBuilt(MAX_RETRIES)

ClientFrame ==
    UNCHANGED <<ticks, dynamo, table, envVars, lambdaVars, cacheVars, procVars, client>>

Later(t, wake) == IF t < wake THEN wake ELSE t

Sleeping(k) == fetch[k].pc \in {"sleeping", "rate limited", "backoff"}

\* The sleep of task k is the next to end.
Due(k) == \A j \in Tasks : Sleeping(j) => fetch[k].wake <= fetch[j].wake

\* The message of the ValueError that get_weather_forecast raises
ArgumentMessage(args) ==
    IF ~(-90 <= args.latitude /\ args.latitude <= 90)
    THEN "Latitude must be between -90 and 90"
    ELSE IF ~(-180 <= args.longitude /\ args.longitude <= 180)
    THEN "Longitude must be between -180 and 180"
    ELSE "Altitude must be between -500 and 9000 meters"

\* A task calls get_weather_forecast: the validation of the arguments, and
\* for valid ones the first try of _make_request up to the lock of acquire.
GetWeatherForecast(k, args) ==
    /\ fetch[k].pc = "idle"
    /\ fetch' = [fetch EXCEPT ![k] =
                    IF InvalidArgument(args)
                    THEN [@ EXCEPT !.pc = "done", !.args = args,
                                   !.result = ValueError(ArgumentMessage(args))]
                    ELSE [@ EXCEPT !.pc = "acquire", !.args = args, !.tries = 1,
                                   !.started = now, !.elapsed = 0]]
    /\ UNCHANGED <<now, limiter, grantLog, provider>>
    /\ ClientFrame

\* RateLimiter.acquire from taking _lock to its first await or its return:
\* the grant, or the start of the wait with _lock held.  A task that calls
\* acquire again from inside acquire ("reacquire") waits for _lock as well.
Acquire(k) ==
    /\ fetch[k].pc \in {"acquire", "reacquire"}
    /\ limiter.lock = 0
    /\ \E kept \in {Recent(limiter.requests, now)} :
          IF AtLimit(kept) /\ time_window - (now - MinOf(kept)) > 0
          THEN /\ limiter' = [requests |-> kept, lock |-> k]
               /\ fetch' = [fetch EXCEPT ![k].pc = "sleeping",
                               ![k].wake = now + (time_window - (now - MinOf(kept)))]
               /\ UNCHANGED grantLog
          ELSE /\ limiter' = [requests |-> Append(kept, now), lock |-> 0]
               /\ fetch' = [fetch EXCEPT ![k].pc = "request", ![k].grants = @ + 1]
               /\ grantLog' = Append(grantLog, now)
    /\ UNCHANGED <<now, provider>>
    /\ ClientFrame

\* The asyncio.sleep(wait_time) of acquire ends and the task, still holding
\* _lock, calls acquire again.
LimiterSleepElapsed(k) ==
    /\ fetch[k].pc = "sleeping"
    /\ Due(k)
    /\ now' = Later(now, fetch[k].wake)
    /\ fetch' = [fetch EXCEPT ![k].pc = "reacquire"]
    /\ UNCHANGED <<limiter, grantLog, provider>>
    /\ ClientFrame

\* A try of _make_request ended at t with exception e: backoff raises it
\* out of get_weather_forecast, or waits for the next try.
AfterFailure(task, e, t, jitter) ==
    IF GiveUp(e, task.tries, task.elapsed)
    THEN [task EXCEPT !.pc = "done", !.result = Reraised(e), !.started = 0,
                      !.elapsed = 0, !.wake = 0]
    ELSE [task EXCEPT !.pc = "backoff", !.waits = @ + 1,
                      !.wake = t + NextWait(task.tries, jitter, task.elapsed)]

\* _make_request returned data: the checks of get_weather_forecast
AfterData(task, checked, t) ==
    [task EXCEPT !.pc = "done", !.started = 0, !.elapsed = 0, !.wake = 0,
                 !.result = IF checked.exc = None THEN [data |-> checked.data]
                            ELSE Reraised(checked.exc)]

\* What the try of a task makes of the outcome r of its session.get
AfterAttempt(task, r, t, jitter) ==
    IF r.exc = None THEN AfterData(task, CheckedResponse(r.data), t)
    ELSE IF r.exc.type = "RateLimitError"
    THEN [task EXCEPT !.pc = "rate limited", !.wake = t + r.sleep]
    ELSE AfterFailure(task, r.exc, t, jitter)

\* The session.get of a granted task meets what the provider does now.
Attempt(k, jitter) ==
    /\ fetch[k].pc = "request"
    /\ fetch' = [fetch EXCEPT ![k] =
                    AfterAttempt([@ EXCEPT !.attempts = @ + 1,
                                           !.met = @ \cup {FailureClass(provider.meets)},
                                           !.last = FailureClass(provider.meets)],
                                 _make_request(provider.meets), now, jitter)]
    /\ UNCHANGED <<now, limiter, grantLog, provider>>
    /\ ClientFrame

\* The provider, or the network on the way to it, changes its behaviour.
ProviderChange(o) ==
    /\ provider.changes < MaxProviderChanges
    /\ o # provider.meets
    /\ provider' = [meets |-> o, changes |-> provider.changes + 1]
    /\ UNCHANGED <<now, limiter, fetch, grantLog>>
    /\ ClientFrame

\* The asyncio.sleep(wait_time) after a 429 ends: RateLimitError is raised.
RateLimitSleepElapsed(k, jitter) ==
    /\ fetch[k].pc = "rate limited"
    /\ Due(k)
    /\ now' = Later(now, fetch[k].wake)
    /\ fetch' = [fetch EXCEPT ![k] =
                    AfterFailure(@, RateLimitError("Rate limited"),
                                 Later(now, fetch[k].wake), jitter)]
    /\ UNCHANGED <<limiter, grantLog, provider>>
    /\ ClientFrame

\* The wait of backoff ends: the next try of _make_request begins.
BackoffElapsed(k) ==
    /\ fetch[k].pc = "backoff"
    /\ Due(k)
    /\ now' = Later(now, fetch[k].wake)
    /\ fetch' = [fetch EXCEPT ![k].pc = "acquire", ![k].tries = @ + 1,
                              ![k].elapsed = Later(now, fetch[k].wake) - fetch[k].started]
    /\ UNCHANGED <<limiter, grantLog, provider>>
    /\ ClientFrame

\* Time passes while no task runs.
ClientTick ==
    /\ now < MaxClock
    /\ \A k \in Tasks : Sleeping(k) => now < fetch[k].wake
    /\ now' = now + 1
    /\ UNCHANGED clientVars
    /\ ClientFrame

\* One task fetches; the provider may change its behaviour on the way.  (The
\* tries of one fetch lie too far apart to fill the limiter's window.)
NextClient ==
    \/ \E args \in ForecastArgs : GetWeatherForecast(1, args)
    \/ \E k \in Tasks : Acquire(k)
    \/ \E k \in Tasks : \E jitter \in Jitter : Attempt(k, jitter)
    \/ \E k \in Tasks : \E jitter \in Jitter : RateLimitSleepElapsed(k, jitter)
    \/ \E k \in Tasks : BackoffElapsed(k)
    \/ \E o \in NetworkOutcomes : ProviderChange(o)
    \/ ClientTick

SpecClient == InitClient /\ [][NextClient]_vars


\* WeatherAPIClient(max_retries=n) with a value of its own
CustomMaxRetries == {1, 5}

InitClientBuilt == \E max_retries \in CustomMaxRetries : ClientBuilt(max_retries)

SpecClientBuilt == InitClientBuilt /\ [][NextClient]_vars

-----------------------------------------------------------------------------
(* Concurrent fetches of several tasks on the one client, all for the same *)
(* valid place, while the provider keeps behaving in one way: it answers,  *)
(* or every connection to it fails (so no task meets an HTTP 429).  The    *)
(* waits of backoff are taken without their jitter.                        *)

ConcurrentWorlds == { Response(200, "", "forecast"), Raises("ClientConnectionError") }

ConcurrentArgs == { Args(90, 180, <<9000>>) }

InitConcurrent ==
    /\ InitClient
    /\ provider.meets \in ConcurrentWorlds

NextConcurrent ==
    \/ \E k \in Tasks : \E args \in ConcurrentArgs : GetWeatherForecast(k, args)
    \/ \E k \in Tasks : Acquire(k)
    \/ \E k \in Tasks : LimiterSleepElapsed(k)
    \/ \E k \in Tasks : Attempt(k, 0)
    \/ \E k \in Tasks : BackoffElapsed(k)
    \/ ClientTick

SpecConcurrent == InitConcurrent /\ [][NextConcurrent]_vars

\* What the event loop does for task k when it can.
TaskStep(k) ==
    \/ Acquire(k)
    \/ LimiterSleepElapsed(k)
    \/ Attempt(k, 0)
    \/ BackoffElapsed(k)

\* The event loop runs every task that is ready.
FairSpecConcurrent == SpecConcurrent /\ \A k \in Tasks : WF_vars(TaskStep(k))

-----------------------------------------------------------------------------
(* The processor as a state machine: its three operations on the table,    *)
(* which the cache client of another invocation fills, while the clock     *)
(* advances and DynamoDB comes and goes.                                   *)

MaxProcOps == 2

ProcFrame ==
    UNCHANGED <<now, ticks, dynamo, envVars, lambdaVars, cacheVars, clientVars, calc>>

\* WeatherProcessor(api_client=api_client).process_city_weather(city_id, use_cache)
ProcessCityWeather(api_client, city_id, use_cache) ==
    /\ procOp.n < MaxProcOps
    /\ \E r \in {process_city_weather(api_client, city_id, use_cache, table, now,
                                      ttlSeconds, dynamo)} :
           /\ table' = r.table
           /\ procOp' = [n |-> procOp.n + 1, op |-> "city", city |-> city_id,
                         use_cache |-> use_cache, exc |-> r.exc,
                         record |-> IF r.exc = None THEN r.result ELSE None,
                         list |-> << >>, lookup |-> r.lookup, done |-> 0,
                         client |-> api_client, fetched |-> r.fetched,
                         stored |-> r.stored]
    /\ ProcFrame

\* processor.process_all_cities_weather(use_cache)
ProcessAllCitiesWeather(use_cache) ==
    /\ procOp.n < MaxProcOps
    /\ \E r \in {process_all_cities_weather(WeatherAPIClient, use_cache, table, now, ttlSeconds,
                                            dynamo)} :
           /\ table' = r.table
           /\ procOp' = [n |-> procOp.n + 1, op |-> "all", city |-> "",
                         use_cache |-> use_cache, exc |-> r.exc, record |-> None,
                         list |-> IF r.exc = None THEN r.result ELSE << >>,
                         lookup |-> "none", done |-> r.done]
    /\ ProcFrame

\* processor.process_cities_weather_with_fallback(use_cache)
ProcessCitiesWeatherWithFallback(use_cache) ==
    /\ procOp.n < MaxProcOps
    /\ \E r \in {process_cities_weather_with_fallback(WeatherAPIClient, use_cache, table, now,
                                                      ttlSeconds, dynamo)} :
           /\ table' = r.table
           /\ procOp' = [n |-> procOp.n + 1, op |-> "fallback", city |-> "",
                         use_cache |-> use_cache, exc |-> r.exc, record |-> None,
                         list |-> IF r.exc = None THEN r.result ELSE << >>,
                         lookup |-> "none", done |-> r.done]
    /\ ProcFrame

ProcCityIds == {CITIES_CONFIG[i].id : i \in DOMAIN CITIES_CONFIG} \cup {"tokyo"}

NextProcessor ==
    \/ \E city_id \in ProcCityIds : \E use_cache \in BOOLEAN :
           ProcessCityWeather(WeatherAPIClient, city_id, use_cache)
    \/ \E use_cache \in BOOLEAN : ProcessAllCitiesWeather(use_cache)
    \/ \E use_cache \in BOOLEAN : ProcessCitiesWeatherWithFallback(use_cache)
    \/ \E i \in DOMAIN CITIES_CONFIG : \E temp10 \in Temperatures :
           SetCachedWeather(CITIES_CONFIG[i], temp10)
    \/ \E d \in CacheTickSteps : Tick(d)
    \/ DynamoChange

SpecProcessor == InitCache /\ [][NextProcessor]_vars

-----------------------------------------------------------------------------
(* The processor of one city with an api_client that has the method the    *)
(* processor calls: what get_weather_data comes to is then up to the stub. *)

\* What the get_weather_data of a stub raises or returns at time t.
StubOutcomes(t) ==
    { [exc |-> e] :
        e \in { WeatherAPIError("API failed"), RateLimitError("Rate limited"),
                APIConnectionError("Request timeout"),
                MalformedResponseError("Invalid JSON response"),
                [type |-> "RuntimeError", msg |-> "boom"] } }
    \cup
    { [exc |-> None, data |-> d] :
        d \in { Body(<< SeriesEntry(ZStamp(TomorrowNoon(t)), 155,
                                    <<"partlycloudy", "day">>) >>),
                Body(<< SeriesEntry(ZStamp(TomorrowNoon(t)), 700, <<"rain", "2">>) >>),
                Body(<< SeriesEntry(ZStamp(t), 155, <<"cloudy">>) >>),
                Body(<< SeriesEntry([kind |-> "bad", wall |-> 0, off |-> 0], 155,
                                    <<"cloudy">>) >>),
                Body(<< [time |-> ZStamp(TomorrowNoon(t)),
                         symbol_code |-> <<"fog">>] >>),
                Body(<< >>),
                [py |-> "dict"],
                [py |-> "coroutine"] } }

\* One call of the processor, on a table in which the first city may be cached.
NextProcessorStubbed ==
    \/ \E city_id \in ProcCityIds : \E use_cache \in BOOLEAN :
           \E outcome \in StubOutcomes(now) :
               procOp.n = 0 /\ ProcessCityWeather(Stub(outcome), city_id, use_cache)
    \/ \E temp10 \in Temperatures : SetCachedWeather(CITIES_CONFIG[1], temp10)
    \/ \E d \in CacheTickSteps : Tick(d)
    \/ DynamoChange

SpecProcessorStubbed == InitCache /\ [][NextProcessorStubbed]_vars

-----------------------------------------------------------------------------
(* Functions of the program on their own: calc holds the arguments of a    *)
(* call, and the result once the call has returned; everything else rests. *)

Idle ==
    /\ now = 0
    /\ ticks = 0
    /\ cfgEnv = Unset
    /\ tableEnv = "weather-cache"
    /\ dynamo = "up"
    /\ table = EmptyTable
    /\ event = NoEvent
    /\ response = None
    /\ handled = "none"
    /\ ops = NoIO
    /\ cityLog = << >>
    /\ raised = None
    /\ reqs = 0
    /\ ttlSeconds = DEFAULT_TTL_SECONDS
    /\ cacheOp = NoCacheOp
    /\ written = [c \in CityIds |-> NoItem]
    /\ limiter = NewLimiter
    /\ fetch = [k \in Tasks |-> IdleTask]
    /\ grantLog = << >>
    /\ provider = Healthy
    /\ client = DefaultClient
    /\ procOp = NoProcOp

CalcFrame ==
    UNCHANGED <<now, ticks, dynamo, table, envVars, lambdaVars, cacheVars, clientVars,
                procOp>>

Called(fn) == calc.fn = fn /\ "result" \notin DOMAIN calc
Returned(fn) == calc.fn = fn /\ "result" \in DOMAIN calc

\* The symbol codes of the model: the codes of the table, each of them with
\* a numeric suffix, and codes the table does not have.
KnownCodes == {p[1] : p \in WEATHER_SYMBOL_MAPPING}

OtherCodes ==
    { <<"unknown">>, <<"sleet">>, <<"sleet", "1">>, <<"rain", "-1">>, <<"rain", "x">>,
      <<"fog", "1", "2">>, <<"">>, <<"1">>, <<"cloudy", "day">>, <<"clearsky">> }

SymbolCodes ==
    KnownCodes
    \cup {Append(c, n) : c \in KnownCodes, n \in DigitStrings}
    \cup OtherCodes

InitSymbols ==
    /\ Idle
    /\ calc \in {[fn |-> "map_weather_symbol", args |-> c] : c \in SymbolCodes}

\* transformers.map_weather_symbol(symbol_code)
MapWeatherSymbol ==
    /\ Called("map_weather_symbol")
    /\ calc' = [fn |-> calc.fn, args |-> calc.args,
                result |-> map_weather_symbol(calc.args)]
    /\ CalcFrame

NextSymbols == MapWeatherSymbol

SpecSymbols == InitSymbols /\ [][NextSymbols]_vars

-----------------------------------------------------------------------------
(* The forecast and the timestamp the Lambda handler takes from a provider body *)

MaxSeries == 3

HOUR == SECONDS_PER_DAY \div 24

\* The clock values of the calls.
CallTimes == {0, 5}

BadStamp == [kind |-> "bad", wall |-> 0, off |-> 0]
OffsetStamp(instant, off) == [kind |-> "offset", wall |-> instant + off, off |-> off]
NaiveStamp(t) == [kind |-> "naive", wall |-> t, off |-> 0]

\* The "time" values of the entries: an hour before and an hour after noon of
\* the next day, that noon written with the offset +02:00, and an unparsable one.
EntryTimes ==
    { ZStamp(TomorrowNoon(0) - HOUR), ZStamp(TomorrowNoon(0) + HOUR),
      OffsetStamp(TomorrowNoon(0), 2 * HOUR), BadStamp }

\* The i-th entry of a series: its temperature (in tenths) tells the entries apart.
NthEntry(i, time) ==
    [time |-> time, air_temperature |-> 100 + 10 * i, symbol_code |-> "cloudy"]

SeriesOver(n) ==
    { [i \in 1..n |-> NthEntry(i, f[i])] : f \in [1..n -> EntryTimes] }

TimeSeries ==
    UNION {SeriesOver(n) : n \in 0..MaxSeries}
    \cup { << [air_temperature |-> 110, symbol_code |-> "cloudy"] >> }

\* properties.meta: without updated_at, with a null, with the update time
\* written with Z, with the offset +02:00, without a zone, and unparsable.
Metas ==
    { [x |-> 0], [updated_at |-> None], [updated_at |-> ZStamp(0)],
      [updated_at |-> OffsetStamp(0, 2 * HOUR)], [updated_at |-> NaiveStamp(0)],
      [updated_at |-> BadStamp] }

Bodies == {[meta |-> m, timeseries |-> s] : m \in Metas, s \in TimeSeries}

InitFresh ==
    /\ Idle
    /\ calc \in {[fn |-> f, args |-> [weather_data |-> b, t |-> t]] :
                    f \in {"extract_tomorrow_forecast", "process_city_weather_with_cache"},
                    b \in Bodies, t \in CallTimes}

\* lambda_handler.extract_tomorrow_forecast(weather_data) at time t
ExtractTomorrowForecast ==
    /\ Called("extract_tomorrow_forecast")
    /\ calc' = [fn |-> calc.fn, args |-> calc.args,
                result |-> extract_tomorrow_forecast(calc.args.weather_data, calc.args.t)]
    /\ CalcFrame

\* process_city_weather_with_cache(city_config) at time t, on a cache miss and
\* a fetch that returned weather_data
FreshCityWeather ==
    /\ Called("process_city_weather_with_cache")
    /\ calc' = [fn |-> calc.fn, args |-> calc.args,
                result |-> AfterFetch(DEFAULT_CITIES[1], table, calc.args.t, tableEnv,
                                      dynamo, [exc |-> None, data |-> calc.args.weather_data],
                                      [NoIO EXCEPT !.reads = 1, !.fetches = 1])]
    /\ CalcFrame

NextFresh == ExtractTomorrowForecast \/ FreshCityWeather

SpecFresh == InitFresh /\ [][NextFresh]_vars

-----------------------------------------------------------------------------
(* The CITIES_CONFIG override *)

MaxOverride == 2

\* The first element of a list that CityConfig(...) cannot be built from.
FirstRaising(cities_data) ==
    CHOOSE i \in DOMAIN cities_data :
        /\ CityConfigOutcome(cities_data[i]) # "ok"
        /\ \A j \in 1..(i - 1) : CityConfigOutcome(cities_data[j]) = "ok"

\* The loop of _load_cities_from_env over a list: the first element that
\* raises ends it; KeyError and ValueError are caught, a TypeError is not.
LoadedList(cities_data) ==
    IF \A i \in DOMAIN cities_data : CityConfigOutcome(cities_data[i]) = "ok"
    THEN [exc |-> None, cities |-> cities_data]
    ELSE IF CityConfigOutcome(cities_data[FirstRaising(cities_data)]) = "TypeError"
         THEN [exc |-> TypeError("'int' object is not subscriptable")]
         ELSE [exc |-> None, cities |-> DEFAULT_CITIES_CONFIG]

\* config._load_cities_from_env, the try block: loaded is what
\* json.loads(cities_json) returned or raised
LoadedCities(loaded) ==
    CASE loaded.t = "JSONDecodeError" -> [exc |-> None, cities |-> DEFAULT_CITIES_CONFIG]
      [] loaded.t = "list" -> LoadedList(loaded.v)
      [] loaded.t = "dict" ->
            IF loaded.keys = {}
            THEN [exc |-> None, cities |-> << >>]
            ELSE [exc |-> TypeError("string indices must be integers")]
      [] loaded.t = "string" ->
            IF loaded.v = ""
            THEN [exc |-> None, cities |-> << >>]
            ELSE [exc |-> TypeError("string indices must be integers")]
      [] OTHER -> [exc |-> TypeError("object is not iterable")]

\* config._load_cities_from_env
_load_cities_from_env(cities_json) ==
    IF ~cities_json.set
    THEN [exc |-> None, cities |-> DEFAULT_CITIES_CONFIG]
    ELSE LoadedCities(cities_json.loads)

\* The elements of the lists of the model: two cities, a city without id,
\* without name, without coordinates, with coordinates without longitude,
\* with a latitude of 200, with a longitude of 300, with an empty id, and
\* the number 1.
Tokyo == City("tokyo", "Tokyo", "Japan", 356762, 1396503)
Sydney == City("sydney", "Sydney", "Australia", -338688, 1512093)

OverrideElements ==
    { Tokyo, Sydney,
      [name |-> "Oslo", country |-> "Norway",
       coordinates |-> [latitude |-> 599139, longitude |-> 107522]],
      [id |-> "oslo", country |-> "Norway",
       coordinates |-> [latitude |-> 599139, longitude |-> 107522]],
      [id |-> "oslo", name |-> "Oslo", country |-> "Norway"],
      [id |-> "oslo", name |-> "Oslo", country |-> "Norway",
       coordinates |-> [latitude |-> 599139]],
      City("invalid", "Invalid", "Test", 2000000, 107522),
      City("invalid", "Invalid", "Test", 599139, 3000000),
      City("", "Oslo", "Norway", 599139, 107522),
      [py |-> "int"] }

\* What json.loads makes of the texts of the model: an error, null, a number,
\* a string, an object, and the lists of up to MaxOverride elements.
LoadedValues ==
    { [t |-> "JSONDecodeError"], [t |-> "null"], [t |-> "number"],
      [t |-> "string", v |-> ""], [t |-> "string", v |-> "oslo"],
      [t |-> "dict", keys |-> {}], [t |-> "dict", keys |-> {"cities"}] }
    \cup UNION { { [t |-> "list", v |-> [i \in 1..n |-> f[i]]] :
                      f \in [1..n -> OverrideElements] } : n \in 0..MaxOverride }

\* The values of the environment variable: unset or empty, or a text.
OverrideTexts ==
    { [set |-> FALSE] } \cup { [set |-> TRUE, loads |-> l] : l \in LoadedValues }

InitConfig ==
    /\ Idle
    /\ calc \in {[fn |-> f, args |-> x] :
                    f \in {"_load_cities_from_env", "get_cities_config"},
                    x \in OverrideTexts}

\* weather_service.config._load_cities_from_env()
LoadCitiesFromEnv ==
    /\ Called("_load_cities_from_env")
    /\ calc' = [fn |-> calc.fn, args |-> calc.args,
                result |-> _load_cities_from_env(calc.args)]
    /\ CalcFrame

\* lambda_handler.get_cities_config()
GetCitiesConfig ==
    /\ Called("get_cities_config")
    /\ calc' = [fn |-> calc.fn, args |-> calc.args,
                result |-> IF ~calc.args.set
                           THEN [t |-> "list", v |-> DEFAULT_CITIES]
                           ELSE CitiesFromJson(calc.args.loads)]
    /\ CalcFrame

NextConfig == LoadCitiesFromEnv \/ GetCitiesConfig

SpecConfig == InitConfig /\ [][NextConfig]_vars

-----------------------------------------------------------------------------
(* A record through the cache and back *)

\* The clock when the record is stored: midnight, and two seconds before the next.
StoreTimes == {0, SECONDS_PER_DAY - 2}

\* The seconds between the write and the read.
ReadDelays == {0, 1, 2, DEFAULT_TTL_SECONDS - 1}

\* The valid CityWeatherData of the model at time t: forecasts for the day and
\* for the day after, with a naive and with a UTC last_updated.
ValidWeatherData(t) ==
    { [CityWeatherData(city, temp10, t) EXCEPT !.forecast.date = day,
                                               !.last_updated = stamp] :
          city \in CacheCities, temp10 \in Temperatures,
          day \in {Today(t), Today(t) + 1},
          stamp \in {NaiveStamp(t), OffsetStamp(t, 0)} }

InitRoundTrip ==
    /\ Idle
    /\ calc \in UNION { {[fn |-> "round_trip",
                          args |-> [weather_data |-> d, t |-> t, delay |-> delay]] :
                             d \in ValidWeatherData(t), delay \in ReadDelays} :
                        t \in StoreTimes }

\* The item set_cached_weather puts for weather_data into an empty table at t.
StoredItem(weather_data, t, ttl_seconds) ==
    set_cached_weather(weather_data, EmptyTable, t, ttl_seconds, "up")
        .table[weather_data.city_id]

\* set_cached_weather(weather_data) at t, then _deserialize_weather_data of the
\* stored item at t + delay
RoundTrip ==
    /\ Called("round_trip")
    /\ calc' = [fn |-> calc.fn, args |-> calc.args,
                item |-> StoredItem(calc.args.weather_data, calc.args.t, ttlSeconds),
                result |-> _deserialize_weather_data(
                               StoredItem(calc.args.weather_data, calc.args.t, ttlSeconds),
                               calc.args.t + calc.args.delay)]
    /\ CalcFrame

NextRoundTrip == RoundTrip

SpecRoundTrip == InitRoundTrip /\ [][NextRoundTrip]_vars

-----------------------------------------------------------------------------
(* The cache client over a table that holds items of earlier writers, and  *)
(* a store that fails in the ways the client tells apart.                  *)

MaxScanCities == 2

ScanCities == {DEFAULT_CITIES[i] : i \in 1..MaxScanCities}

\* An item with a ttl and without weather_data.
CorruptItem(city) ==
    [city_id |-> city.id,
     ttl |-> DEFAULT_TTL_SECONDS,
     cached_at |-> OffsetStamp(0, 0),
     cache_version |-> "1.0"]

\* An item of a writer that sets no ttl.
ForeignItem(city) ==
    [city_id |-> city.id,
     weather_data |-> _serialize_weather_data(CityWeatherData(city, 155, 0))]

\* The tables the instance may find: for each city nothing, a corrupt item
\* or an item without ttl.
SeededTables ==
    { [c \in CityIds |->
          IF \E city \in ScanCities : city.id = c
          THEN f[CHOOSE city \in ScanCities : city.id = c]
          ELSE NoItem] :
      f \in { g \in [ScanCities -> [absent : {TRUE}] \cup
                                   UNION {{CorruptItem(city), ForeignItem(city)} :
                                             city \in ScanCities}] :
                 \A city \in ScanCities :
                     g[city] \in {NoItem, CorruptItem(city), ForeignItem(city)} } }

InitStore ==
    /\ now = 0
    /\ ticks = 0
    /\ cfgEnv = Unset
    /\ tableEnv = "weather-cache"
    /\ dynamo \in {"up", "no resource"}
    /\ table \in SeededTables
    /\ event = NoEvent
    /\ response = None
    /\ handled = "none"
    /\ ops = NoIO
    /\ cityLog = << >>
    /\ raised = None
    /\ reqs = 0
    /\ ttlSeconds \in {DEFAULT_TTL_SECONDS, CustomTtlSeconds}
    /\ cacheOp = NoCacheOp
    /\ written = [c \in CityIds |-> NoItem]
    /\ limiter = NewLimiter
    /\ fetch = [k \in Tasks |-> IdleTask]
    /\ grantLog = << >>
    /\ provider = Healthy
    /\ client = DefaultClient
    /\ procOp = NoProcOp
    /\ calc = NoCalc

\* The orders in which the scans may return the items of the table.
ScanOrders(tbl) ==
    LET present == {c \in CityIds : tbl[c] # NoItem}
    IN  { order \in [1..Cardinality(present) -> present] :
              \A i, j \in DOMAIN order : order[i] = order[j] => i = j }

\* cache.get_all_cached_weather()
GetAllCachedWeather ==
    /\ cacheOp.n < MaxCacheOps
    /\ \E order \in ScanOrders(table) :
       \E r \in {get_all_cached_weather([i \in DOMAIN order |-> table[order[i]]],
                                        now, dynamo)} :
           cacheOp' = [n |-> cacheOp.n + 1, op |-> "get_all", at |-> now,
                       exc |-> r.exc,
                       result |-> IF r.exc = None THEN r.result ELSE << >>]
    /\ UNCHANGED <<table, written>>
    /\ CacheFrame

\* The ways the store fails once the table reference exists.
StoreStates == {"up", "down", "no table", "unreachable"}

\* The store starts or stops failing in one of these ways.
StoreChange(kind) ==
    /\ dynamo \in StoreStates
    /\ kind # dynamo
    /\ dynamo' = kind
    /\ UNCHANGED <<now, ticks, table, envVars, lambdaVars, cacheVars, clientVars,
                   procVars>>

NextStore ==
    \/ \E city \in ScanCities : SetCachedWeather(city, 155)
    \/ \E city \in ScanCities : GetCachedWeather(city.id)
    \/ GetAllCachedWeather
    \/ \E d \in CacheTickSteps : Tick(d)
    \/ \E kind \in StoreStates : StoreChange(kind)

SpecStore == InitStore /\ [][NextStore]_vars

-----------------------------------------------------------------------------
(* The forecast of tomorrow the transformers take from a provider body *)

MaxDaySeries == 3

\* The "time" values of the entries, the calls being made on day 0: tomorrow
\* at 09:00, 10:00, 14:59:59 and 15:00, today at 12:00, and an unparsable one.
DayEntryTimes ==
    { ZStamp(SECONDS_PER_DAY + 9 * HOUR), ZStamp(SECONDS_PER_DAY + 10 * HOUR),
      ZStamp(SECONDS_PER_DAY + 15 * HOUR - 1), ZStamp(SECONDS_PER_DAY + 15 * HOUR),
      ZStamp(NOON), BadStamp }

DaySeries ==
    UNION { { [i \in 1..n |-> SeriesEntry(f[i], 100 + 10 * i, <<"cloudy">>)] :
                  f \in [1..n -> DayEntryTimes] } :
              n \in 0..MaxDaySeries }

InitTomorrow ==
    /\ Idle
    /\ calc \in {[fn |-> f, args |-> [api_response |-> Body(s), t |-> t]] :
                    f \in {"extract_tomorrow_forecast", "parse_met_no_response"},
                    s \in DaySeries, t \in CallTimes}

\* transformers.extract_tomorrow_forecast(api_response) at time t
TransformersExtractTomorrowForecast ==
    /\ Called("extract_tomorrow_forecast")
    /\ calc' = [fn |-> calc.fn, args |-> calc.args,
                result |-> transformers_extract_tomorrow_forecast(calc.args.api_response,
                                                                  calc.args.t)]
    /\ CalcFrame

\* transformers.parse_met_no_response(api_response, city_id) at time t
ParseMetNoResponse ==
    /\ Called("parse_met_no_response")
    /\ calc' = [fn |-> calc.fn, args |-> calc.args,
                result |-> parse_met_no_response(calc.args.api_response,
                                                 CITIES_CONFIG[1].id, calc.args.t)]
    /\ CalcFrame

NextTomorrow == TransformersExtractTomorrowForecast \/ ParseMetNoResponse

SpecTomorrow == InitTomorrow /\ [][NextTomorrow]_vars


-----------------------------------------------------------------------------
(* The temperature of the forecast the handler extracts *)

\* The air temperatures of the model, in tenths of a degree: from MaxFrost10
\* below zero (-3.0) to MaxTemp10 (22.0).
MaxFrost10 == 30
MaxTemp10 == 220

\* Bodies whose one entry is dated noon of the next day.
InitRounding ==
    /\ Idle
    /\ calc \in {[fn |-> "extract_tomorrow_forecast",
                  args |-> [weather_data |->
                                [meta |-> [updated_at |-> ZStamp(0)],
                                 timeseries |->
                                     << Entry(TomorrowNoon(0), temp10, "cloudy") >>],
                            t |-> 0]] :
                    temp10 \in (0 - MaxFrost10)..MaxTemp10}

NextRounding == ExtractTomorrowForecast

SpecRounding == InitRounding /\ [][NextRounding]_vars

-----------------------------------------------------------------------------
(* Properties of the HTTP surface (lambda_handler.py) *)

\* The configuration the function runs with, and whether every entry of it
\* carries the keys a record is built from.
Configured == get_cities_config(cfgEnv)
IsCityList ==
    /\ Configured.t = "list"
    /\ \A i \in 1..Len(Configured.v) :
           {"id", "name", "country"} \subseteq DOMAIN Configured.v[i]

Invoked == event # NoEvent
IsErrorBody(resp) ==
    /\ "json" \in DOMAIN resp.body
    /\ DOMAIN resp.body.json = {"error"}
    /\ {"type", "message", "timestamp"} \subseteq DOMAIN resp.body.json.error
    /\ DOMAIN resp.body.json.error \subseteq {"type", "message", "timestamp", "requestId"}
ErrorType(resp) == resp.body.json.error.type
CacheControlIs(resp, v) ==
    /\ "Cache-Control" \in DOMAIN resp.headers
    /\ resp.headers["Cache-Control"] = v
Summarised == Invoked /\ handled = "weather" /\ response.statusCode = 200
Cities == response.body.json.cities
IsPlaceholder(rec) ==
    /\ "error" \in DOMAIN rec
    /\ rec.forecast.temperature = [value |-> 0, unit |-> "celsius"]
    /\ rec.forecast.condition = "unknown"

\* C1: a request whose method is not OPTIONS is routed by its method and path
\* alone: GET /health is answered 200 "healthy", GET / and GET /weather run the
\* weather handler, any other method on / or /weather is answered 405
\* MethodNotAllowed, and any other path is answered 404 NotFound.
C1_Routing ==
    (Invoked /\ event # RawEvent /\ MethodOf(event) # "OPTIONS") =>
        LET m == MethodOf(event)
            p == PathOf(event)
        IN  /\ (m = "GET" /\ p = "/health") =>
                   /\ handled = "health"
                   /\ response.statusCode = 200
                   /\ response.body.json.status = "healthy"
            /\ (m = "GET" /\ p \in {"/", "/weather"}) => handled = "weather"
            /\ (m # "GET" /\ p \in {"/", "/weather"}) =>
                   /\ handled = "none"
                   /\ response.statusCode = 405
                   /\ IsErrorBody(response)
                   /\ ErrorType(response) = "MethodNotAllowed"
            /\ p \notin {"/", "/weather", "/health"} =>
                   /\ handled = "none"
                   /\ response.statusCode = 404
                   /\ IsErrorBody(response)
                   /\ ErrorType(response) = "NotFound"

C1_Witness ==
    /\ event = [httpMethod |-> "GET", path |-> "/"]
    /\ handled = "weather"
    /\ response.statusCode = 200

\* C2: whatever mix of cache hits, fetches and failures the cities meet, the
\* summary lists exactly one record per configured city, in configuration
\* order; a city whose pipeline failed is listed as a fallback record with an
\* error string and the placeholder forecast, and the batch is not aborted.
C2_OneRecordPerCity ==
    (Invoked /\ handled = "weather" /\ IsCityList) =>
        /\ response.statusCode = 200
        /\ Len(Cities) = Len(Configured.v)
        /\ Len(cityLog) = Len(Configured.v)
        /\ \A i \in 1..Len(Cities) :
               /\ Cities[i].cityId = Configured.v[i].id
               /\ Cities[i].cityName = Configured.v[i].name
               /\ cityLog[i].src = "fallback" <=> "error" \in DOMAIN Cities[i]
               /\ cityLog[i].src = "fallback" => IsPlaceholder(Cities[i])

C2_Witness ==
    /\ Summarised
    /\ Len(Cities) = Len(DEFAULT_CITIES)
    /\ \E i, k \in 1..Len(cityLog) :
           /\ cityLog[i].src = "cache"
           /\ cityLog[k].src = "fallback"
           /\ i < k

\* C3: in a summary, hasErrors is true exactly when some city record carries
\* an error, and status is "partial_failure" exactly when hasErrors is true
\* and "success" otherwise.
C3_StatusFollowsErrors ==
    Summarised =>
        LET body == response.body.json
        IN  /\ body.hasErrors = (\E i \in 1..Len(body.cities) :
                                    "error" \in DOMAIN body.cities[i])
            /\ body.status = IF body.hasErrors THEN "partial_failure" ELSE "success"

C3_Witness ==
    /\ Summarised
    /\ response.body.json.status = "partial_failure"
    /\ \E i \in 1..Len(Cities) : "error" \notin DOMAIN Cities[i]

C5_WeatherCacheControl ==
    Summarised =>
        /\ CacheControlIs(response, "max-age=60") <=> ~response.body.json.hasErrors
        /\ response.body.json.hasErrors => CacheControlIs(response, "max-age=0")

C5_Witness ==
    /\ Summarised
    /\ response.body.json.hasErrors
    /\ CacheControlIs(response, "max-age=0")
    /\ \E i \in 1..Len(cityLog) : cityLog[i].src = "api"

\* C6, as stated: every response with status >= 400 and every response to a
\* request on /health carries Cache-Control "max-age=0", and every response
\* with status >= 400 has the error envelope as its body.
C6_ErrorAndHealthUncached ==
    (Invoked /\ event # RawEvent) =>
        /\ (response.statusCode >= 400 \/ PathOf(event) = "/health") =>
               CacheControlIs(response, "max-age=0")
        /\ response.statusCode >= 400 => IsErrorBody(response)

\* C6, as the code has it: every response with status >= 400 and every
\* response to a request on /health whose method is not OPTIONS carries
\* Cache-Control "max-age=0" (the preflight answer to OPTIONS /health carries
\* "max-age=86400"); every response with status >= 400 has the body
\* {error: {type, message, timestamp}} plus requestId when one is available.
C6_ErrorAndHealthUncachedExceptPreflight ==
    Invoked =>
        /\ response.statusCode >= 400 =>
               /\ CacheControlIs(response, "max-age=0")
               /\ IsErrorBody(response)
               /\ event # RawEvent =>
                      /\ "requestId" \in DOMAIN response.body.json.error
                      /\ response.body.json.error.requestId = RequestId
        /\ (event # RawEvent /\ PathOf(event) = "/health"
               /\ MethodOf(event) # "OPTIONS") =>
               /\ handled = "health"
               /\ CacheControlIs(response, "max-age=0")

C6_Witness ==
    /\ event = [httpMethod |-> "POST", path |-> "/health"]
    /\ handled = "health"
    /\ CacheControlIs(response, "max-age=0")

\* C7: no exception leaves lambda_handler: an invocation in which one was
\* raised is still answered. On the weather route a WeatherServiceError is
\* answered 502 and any other exception 500; outside it the answer is the 500
\* critical error. The status, error type and message of the answer are fixed
\* by the class of the exception alone, whatever its text. (Checked with the
\* exceptions of the pipeline and with those a stubbed get_weather_summary
\* raises.)
C7_ExceptionsAnswered ==
    (Invoked /\ raised # None) =>
        /\ IsErrorBody(response)
        /\ handled = "weather" =>
               IF raised.type = "WeatherServiceError"
               THEN /\ response.statusCode = 502
                    /\ ErrorType(response) = "WeatherServiceError"
                    /\ response.body.json.error.message
                           = "Weather service temporarily unavailable"
               ELSE /\ response.statusCode = 500
                    /\ ErrorType(response) = "InternalError"
                    /\ response.body.json.error.message = "Internal server error"
        /\ handled # "weather" =>
               /\ response.statusCode = 500
               /\ ErrorType(response) = "CriticalError"
               /\ response.body.json.error.message = "Critical system error"

C7_Witness ==
    /\ Invoked
    /\ handled = "weather"
    /\ raised = WeatherServiceError("Internal server error")
    /\ response.statusCode = 502
    /\ response.body.json.error.message = "Weather service temporarily unavailable"

\* C8: an OPTIONS request to any path is answered 200 with
\* Access-Control-Allow-Origin "*", Access-Control-Allow-Methods "GET,OPTIONS",
\* Access-Control-Max-Age "86400" and Cache-Control "max-age=86400", without
\* any cache access and without any fetch.
C8_Preflight ==
    (Invoked /\ event # RawEvent /\ MethodOf(event) = "OPTIONS") =>
        /\ handled = "options"
        /\ response.statusCode = 200
        /\ {"Access-Control-Allow-Origin", "Access-Control-Allow-Methods",
            "Access-Control-Max-Age"} \subseteq DOMAIN response.headers
        /\ response.headers["Access-Control-Allow-Origin"] = "*"
        /\ response.headers["Access-Control-Allow-Methods"] = "GET,OPTIONS"
        /\ response.headers["Access-Control-Max-Age"] = "86400"
        /\ CacheControlIs(response, "max-age=86400")
        /\ ops = NoIO
        /\ cityLog = << >>

C8_Witness ==
    /\ event = [httpMethod |-> "OPTIONS", path |-> "/weather"]
    /\ handled = "options"
    /\ table # EmptyTable

\* The step is an invocation that ran the weather handler after an invocation
\* that ran it too, and city i of the earlier one was fetched and stored.
FetchedAndStored(i) ==
    /\ handled = "weather"
    /\ i \in 1..Len(cityLog)
    /\ cityLog[i].src = "api"
    /\ cityLog[i].stored
SecondCall ==
    /\ reqs' = reqs + 1
    /\ handled' = "weather"
    /\ raised' = None
ServedFromCache(i) ==
    /\ i \in 1..Len(cityLog')
    /\ cityLog'[i].id = cityLog[i].id
    /\ cityLog'[i].src = "cache"
    /\ cityLog'[i].met = "none"
    /\ cityLog'[i].rec = cityLog[i].rec

-----------------------------------------------------------------------------
(* Properties of the cache client (weather_service/cache.py) *)

TtlOf(item) == IF "ttl" \in DOMAIN item THEN item.ttl ELSE 0
LookedUp == cacheOp.op = "get" /\ cacheOp.exc = None

-----------------------------------------------------------------------------
(* The provider client *)

Done(k) == fetch[k].pc = "done"
Failed(k) == Done(k) /\ "type" \in DOMAIN fetch[k].result

\* C12: get_weather_forecast with a latitude outside [-90, 90], a longitude
\* outside [-180, 180] or a given altitude outside [-500, 9000] fails with
\* ValueError before the rate limiter is asked and before any network
\* attempt, and is never retried; arguments on these limits are not rejected.
C12_InvalidArgumentsRejected ==
    \A k \in Tasks :
        fetch[k].pc # "idle" =>
            IF \/ fetch[k].args.latitude < -90 \/ fetch[k].args.latitude > 90
               \/ fetch[k].args.longitude < -180 \/ fetch[k].args.longitude > 180
               \/ /\ fetch[k].args.altitude # << >>
                  /\ \/ fetch[k].args.altitude[1] < -500
                     \/ fetch[k].args.altitude[1] > 9000
            THEN /\ Done(k)
                 /\ fetch[k].result = ValueError(ArgumentMessage(fetch[k].args))
                 /\ fetch[k].grants = 0
                 /\ fetch[k].attempts = 0
                 /\ fetch[k].tries = 0
                 /\ fetch[k].waits = 0
            ELSE /\ fetch[k].tries >= 1
                 /\ ~Failed(k) \/ fetch[k].result.type # "ValueError"

\* A call with an altitude of 9001 m has failed with ValueError while the
\* limiter has granted nothing.
C12_Witness ==
    \E k \in Tasks :
        /\ Done(k)
        /\ fetch[k].args = Args(0, 0, <<9001>>)
        /\ fetch[k].result.type = "ValueError"
        /\ grantLog = << >>

Transient == {"connection error", "timeout", "HTTP 5xx", "HTTP 429"}

\* C13: a fetch that fails while one transient failure (connection error,
\* timeout, HTTP 5xx or HTTP 429) met every attempt has made more than one
\* network attempt and at most MAX_RETRIES.
C13_TransientRetriedBounded ==
    \A k \in Tasks :
        (Failed(k) /\ \E c \in Transient : fetch[k].met = {c}) =>
            fetch[k].attempts > 1 /\ fetch[k].attempts <= MAX_RETRIES

\* A fetch has failed after a single attempt that met an HTTP 5xx.
C13_Witness ==
    \E k \in Tasks :
        Failed(k) /\ fetch[k].met = {"HTTP 5xx"} /\ fetch[k].attempts = 1

\* C14: a fetch that fails after a network attempt raises the error of the
\* class of its last failure: RateLimitError after HTTP 429, APIConnectionError
\* after a connection error or a timeout, MalformedResponseError after a body
\* that is no JSON or lacks 'properties' or 'timeseries', and plain
\* WeatherAPIError after another HTTP 4xx.
C14_TypedFailures ==
    \A k \in Tasks :
        (Failed(k) /\ fetch[k].attempts > 0) =>
            /\ fetch[k].last = "HTTP 429" => fetch[k].result.type = "RateLimitError"
            /\ fetch[k].last \in {"connection error", "timeout"} =>
                   fetch[k].result.type = "APIConnectionError"
            /\ fetch[k].last \in {"malformed JSON", "missing field"} =>
                   fetch[k].result.type = "MalformedResponseError"
            /\ fetch[k].last = "HTTP 4xx" => fetch[k].result.type = "WeatherAPIError"

\* A fetch whose every attempt met a connection error has failed with the
\* plain WeatherAPIError.
C14_Witness ==
    \E k \in Tasks :
        /\ Failed(k)
        /\ fetch[k].met = {"connection error"}
        /\ fetch[k].attempts = MAX_RETRIES
        /\ fetch[k].result.type = "WeatherAPIError"

NonRetryable == {"HTTP 4xx", "malformed JSON", "missing field"}

\* C15: a network attempt that meets a non-retryable failure (HTTP 4xx other
\* than 429, a body that is no JSON, a response without 'properties' or
\* 'timeseries') ends the fetch in failure at once: no wait of backoff and no
\* further attempt follows, so a fetch that met nothing else has made exactly
\* one attempt.
C15_NonRetryableFailsAtOnce ==
    \A k \in Tasks :
        fetch[k].last \in NonRetryable =>
            /\ Failed(k)
            /\ fetch[k].result.type \in {"WeatherAPIError", "MalformedResponseError"}
            /\ fetch[k].waits = fetch[k].attempts - 1
            /\ fetch[k].met \subseteq NonRetryable =>
                   fetch[k].attempts = 1 /\ fetch[k].waits = 0

\* A fetch has failed on a response without a required field after its one
\* attempt, without any wait.
C15_Witness ==
    \E k \in Tasks :
        /\ Failed(k)
        /\ fetch[k].last = "missing field"
        /\ fetch[k].attempts = 1
        /\ fetch[k].result.type = "MalformedResponseError"

\* C16: every call of RateLimiter.acquire returns in the end: a task that
\* waits in acquire, for the lock or for capacity, is granted eventually.
C16_AcquireReturns ==
    \A k \in Tasks :
        (fetch[k].pc \in {"acquire", "sleeping", "reacquire"}) ~> (fetch[k].pc = "request")

\* A task that waited for capacity is calling acquire again while it holds
\* the lock itself, and another task waits for the lock.
C16_Witness ==
    \E k, j \in Tasks :
        /\ fetch[k].pc = "reacquire"
        /\ limiter.lock = k
        /\ fetch[j].pc = "acquire"

\* C17: in every interleaving of concurrent fetches each network attempt,
\* retries included, follows a grant of acquire of its own, and no window of
\* time_window seconds holds the times of more than max_requests grants.
C17_GrantedWithinLimit ==
    /\ \A k \in Tasks :
           fetch[k].grants = fetch[k].attempts + (IF fetch[k].pc = "request" THEN 1 ELSE 0)
    /\ \A i \in DOMAIN grantLog :
           Cardinality({j \in DOMAIN grantLog :
                           /\ grantLog[i] - time_window < grantLog[j]
                           /\ grantLog[j] <= grantLog[i]}) <= max_requests

\* The limiter has granted more than max_requests times, max_requests of them
\* within one window, and one of the grants went to a retry.
C17_Witness ==
    /\ Len(grantLog) > max_requests
    /\ \E i \in DOMAIN grantLog :
           Cardinality({j \in DOMAIN grantLog :
                           /\ grantLog[i] - time_window < grantLog[j]
                           /\ grantLog[j] <= grantLog[i]}) = max_requests
    /\ \E k \in Tasks : fetch[k].attempts >= 2

-----------------------------------------------------------------------------
(* The processor *)

\* C11: with use_cache=true a failure of the cache never aborts the
\* processing of a supported city: no CacheError leaves process_city_weather,
\* and when the lookup raised a CacheError while the provider is healthy the
\* call returns the city's freshly fetched record.
C11_CacheFailuresNeverAbort ==
    (procOp.op = "city" /\ procOp.use_cache /\ validate_city_id(procOp.city)) =>
        /\ procOp.exc # None => ~IsInstance(procOp.exc, {"CacheError"})
        /\ (procOp.lookup = "error" /\ provider = Healthy) =>
               /\ procOp.exc = None
               /\ procOp.record.city_id = procOp.city

\* The lookup of a supported city raised a CacheError, the provider was
\* healthy, and process_city_weather raised a ValidationError.
C11_Witness ==
    /\ procOp.op = "city"
    /\ procOp.use_cache
    /\ procOp.lookup = "error"
    /\ provider = Healthy
    /\ procOp.exc # None
    /\ procOp.exc.type = "ValidationError"

\* C19: an aggregation (process_all_cities_weather or
\* process_cities_weather_with_fallback) all of whose cities were processed
\* successfully returns their records, in the order of the city configuration.
C19_ConfigurationOrder ==
    (procOp.op \in {"all", "fallback"} /\ procOp.done = Len(CITIES_CONFIG)) =>
        /\ procOp.exc = None
        /\ Len(procOp.list) = Len(CITIES_CONFIG)
        /\ \A i \in DOMAIN procOp.list : procOp.list[i].city_id = CITIES_CONFIG[i].id

\* Every city was served from the cache and the aggregation raised NameError.
C19_Witness ==
    /\ procOp.op \in {"all", "fallback"}
    /\ procOp.done = Len(CITIES_CONFIG)
    /\ procOp.exc # None
    /\ procOp.exc.type = "NameError"

\* The cities whose processing raises in the current state.
FailingCities(use_cache) ==
    {i \in DOMAIN CITIES_CONFIG :
        process_city_weather(WeatherAPIClient, CITIES_CONFIG[i].id, use_cache, table, now,
                             ttlSeconds,
                             dynamo).exc # None}

FirstFailing(use_cache) ==
    CHOOSE i \in FailingCities(use_cache) : \A j \in FailingCities(use_cache) : i <= j

\* C20: process_all_cities_weather returns a list only if every configured
\* city succeeded; if the processing of some city raises, the call raises
\* exactly the error of the first failing city in configuration order and
\* hands out no list.
C20_FailFastAllOrNothing ==
    [][(procOp'.n = procOp.n + 1 /\ procOp'.op = "all") =>
          /\ procOp'.exc = None => FailingCities(procOp'.use_cache) = {}
          /\ FailingCities(procOp'.use_cache) # {} =>
                /\ procOp'.exc =
                       process_city_weather(
                           WeatherAPIClient,
                           CITIES_CONFIG[FirstFailing(procOp'.use_cache)].id,
                           procOp'.use_cache, table, now, ttlSeconds, dynamo).exc
                /\ procOp'.list = << >>]_vars

\* The first city was served from the cache, the second failed, and the
\* fail-fast aggregation raised the second city's ValidationError.
C20_Witness ==
    /\ procOp.op = "all"
    /\ procOp.done = 1
    /\ procOp.exc # None
    /\ procOp.exc.type = "ValidationError"
    /\ procOp.list = << >>

-----------------------------------------------------------------------------
(* The aggregation behind GET /weather *)

\* C18: the per-city pipelines of one aggregation run concurrently: a city
\* whose pipeline suspended (a DynamoDB call, a fetch, the delay after it)
\* does not hold up the next city, whose pipeline begins before the
\* suspended one, its delay included, is over.
C18_PipelinesOverlap ==
    \A i \in 1..(Len(cityLog) - 1) :
        cityLog[i].ended > cityLog[i].began =>
            cityLog[i + 1].began < cityLog[i].ended

\* A summary of the four default cities, all fetched, in which every city
\* began exactly when the city before it, delay included, was over.
C18_Witness ==
    /\ handled = "weather"
    /\ Len(cityLog) = Len(DEFAULT_CITIES)
    /\ \A i \in 1..Len(cityLog) :
           cityLog[i].src = "api" /\ cityLog[i].ended > cityLog[i].began
    /\ \A i \in 1..(Len(cityLog) - 1) : cityLog[i + 1].began = cityLog[i].ended

-----------------------------------------------------------------------------
(* The transformers *)

\* C26: map_weather_symbol does not see a trailing numeric suffix (a known
\* code followed by "_" and a number maps as the code itself), maps the day,
\* night and polar twilight variants of a base symbol to one condition, and
\* maps every code that is not in the table to "unknown".
C26_SuffixInvariant ==
    Returned("map_weather_symbol") =>
        LET c == calc.args
            base == SubSeq(c, 1, Len(c) - 1)
        IN  /\ (Len(c) >= 2 /\ base \in KnownCodes /\ c[Len(c)] \in DigitStrings) =>
                   calc.result = map_weather_symbol(base)
            /\ (c \in KnownCodes /\ Len(c) = 2) =>
                   \A v \in {"day", "night", "polartwilight"} :
                       <<c[1], v>> \in KnownCodes
                       /\ map_weather_symbol(<<c[1], v>>) = calc.result
            /\ (c \notin KnownCodes
                   /\ ~(Len(c) >= 2 /\ base \in KnownCodes
                           /\ c[Len(c)] \in DigitStrings)) =>
                   calc.result = "unknown"

\* "rain_2" was mapped, to the condition of "rain".
C26_Witness ==
    /\ Returned("map_weather_symbol")
    /\ calc.args = <<"rain", "2">>
    /\ calc.result = "rain"

-----------------------------------------------------------------------------
(* The processor of one city *)

\* C21: process_city_weather called with a city id that is not in the
\* configuration raises ValueError, and does so before any cache lookup,
\* fetch or cache write: the table is as it was.
C21_UnknownCityFailsFirst ==
    [][(procOp'.n = procOp.n + 1 /\ procOp'.op = "city"
            /\ ~validate_city_id(procOp'.city)) =>
          /\ procOp'.exc # None
          /\ procOp'.exc.type = "ValueError"
          /\ procOp'.lookup = "none"
          /\ ~procOp'.fetched
          /\ ~procOp'.stored
          /\ table' = table]_vars

\* The first city is cached, and a call for "tokyo" with use_cache=true on a
\* processor whose client would have answered has raised ValueError.
C21_Witness ==
    /\ procOp.op = "city"
    /\ procOp.city = "tokyo"
    /\ procOp.use_cache
    /\ procOp.client.class = "Stub"
    /\ procOp.client.get_weather_data.exc = None
    /\ table[CITIES_CONFIG[1].id] # NoItem
    /\ procOp.exc # None
    /\ procOp.exc.type = "ValueError"

\* The fetch of the call raised an error of the WeatherAPIError family.
FetchRaisedApiError ==
    /\ procOp.client.get_weather_data.exc # None
    /\ IsInstance(procOp.client.get_weather_data.exc, {"WeatherAPIError"})

-----------------------------------------------------------------------------
(* The timestamps of the summary *)

\* The cities of the summary whose record carries no error.
Succeeded == {i \in 1..Len(Cities) : "error" \notin DOMAIN Cities[i]}

\* C23: the lastUpdated of a summary is the latest lastUpdated among the
\* records without an error; the timestamps of the fallback records do not
\* count, and the time of the request is used only when no city succeeded.
C23_SummaryLastUpdated ==
    (Summarised /\ Len(Cities) > 0 /\ Len(cityLog) = Len(Cities)) =>
        IF Succeeded = {}
        THEN response.body.json.lastUpdated = NowStamp(cityLog[1].at)
        ELSE /\ \E i \in Succeeded :
                    ParseInstant(Cities[i].lastUpdated)
                        = ParseInstant(response.body.json.lastUpdated)
             /\ \A i \in Succeeded :
                    ParseInstant(Cities[i].lastUpdated)
                        <= ParseInstant(response.body.json.lastUpdated)

\* A summary with fetched records and a fallback record whose lastUpdated is
\* later than that of every record without an error.
C23_Witness ==
    /\ Summarised
    /\ Len(cityLog) = Len(Cities)
    /\ Succeeded # {}
    /\ \E i \in 1..Len(Cities) : "error" \in DOMAIN Cities[i]
    /\ \A i \in Succeeded :
           ParseInstant(Cities[i].lastUpdated)
               < ParseInstant(response.body.json.lastUpdated)

-----------------------------------------------------------------------------
(* The fresh record of the Lambda handler *)

\* The provider timestamp of a body: meta.updated_at, else the time of the
\* first entry of the series, else none.
ProviderStamp(weather_data) ==
    IF "updated_at" \in DOMAIN weather_data.meta
    THEN weather_data.meta.updated_at
    ELSE IF Len(weather_data.timeseries) > 0
            /\ "time" \in DOMAIN weather_data.timeseries[1]
         THEN weather_data.timeseries[1].time
         ELSE None

\* C24: the lastUpdated of a record built after a cache miss is meta.updated_at,
\* else the time of the first entry of the series, else the current time; the
\* provider's timestamp is written as the same instant in UTC with "Z", and the
\* current time is used when it cannot be parsed.
C24_ProviderTimestamp ==
    (/\ Returned("process_city_weather_with_cache")
     /\ calc.result.exc = None
     /\ calc.result.src = "api") =>
        IF \/ ProviderStamp(calc.args.weather_data) = None
           \/ ~Parses(ProviderStamp(calc.args.weather_data))
        THEN calc.result.rec.lastUpdated = NowStamp(calc.args.t)
        ELSE calc.result.rec.lastUpdated
                 = ZStamp(ParseInstant(ProviderStamp(calc.args.weather_data)))

\* A record built from a body whose updated_at carries the offset +02:00: its
\* lastUpdated is the local wall time followed by "Z", another instant.
C24_Witness ==
    /\ Returned("process_city_weather_with_cache")
    /\ calc.result.exc = None
    /\ calc.result.src = "api"
    /\ "updated_at" \in DOMAIN calc.args.weather_data.meta
    /\ calc.args.weather_data.meta.updated_at # None
    /\ calc.args.weather_data.meta.updated_at.kind = "offset"
    /\ calc.result.rec.lastUpdated.kind = "Z"
    /\ ParseInstant(calc.result.rec.lastUpdated)
           # ParseInstant(calc.args.weather_data.meta.updated_at)

\* The distance of the i-th entry of a series from the target.
Distance(series, i, target) == Abs(ParseInstant(series[i].time) - target)

\* The earliest of the entries of a series that are nearest to the target.
Nearest(series, target) ==
    CHOOSE i \in 1..Len(series) :
        \A j \in 1..Len(series) :
            \/ Distance(series, i, target) < Distance(series, j, target)
            \/ (Distance(series, i, target) = Distance(series, j, target) /\ i <= j)

\* C25: extract_tomorrow_forecast of the Lambda handler takes the entry whose
\* time is nearest to 12:00 UTC of the next day, the earliest one of the series
\* among equally near entries; an empty series fails with an error.
C25_NearestToNoon ==
    Returned("extract_tomorrow_forecast") =>
        IF Len(calc.args.weather_data.timeseries) = 0
        THEN /\ calc.result.exc # None
             /\ calc.result.exc.type = "WeatherServiceError"
        ELSE (\A i \in 1..Len(calc.args.weather_data.timeseries) :
                 /\ "time" \in DOMAIN calc.args.weather_data.timeseries[i]
                 /\ calc.args.weather_data.timeseries[i].time.kind \in {"Z", "offset"})
             => /\ calc.result.exc = None
                /\ calc.result.forecast.temperature.value
                     = PyRound(calc.args.weather_data.timeseries[
                                   Nearest(calc.args.weather_data.timeseries,
                                           TomorrowNoon(calc.args.t))].air_temperature)

\* A series whose second and third entries are as near to the target as no
\* other, an hour before and an hour after: the forecast is that of the second.
C25_Witness ==
    /\ Returned("extract_tomorrow_forecast")
    /\ calc.result.exc = None
    /\ Len(calc.args.weather_data.timeseries) = 3
    /\ calc.args.weather_data.timeseries[1].time = ZStamp(TomorrowNoon(0) + HOUR)
    /\ calc.args.weather_data.timeseries[2].time = ZStamp(TomorrowNoon(0) - HOUR)
    /\ calc.args.weather_data.timeseries[3].time = ZStamp(TomorrowNoon(0) + HOUR)
    /\ calc.result.forecast.temperature.value
           = PyRound(calc.args.weather_data.timeseries[1].air_temperature)

-----------------------------------------------------------------------------
(* The CITIES_CONFIG override *)

\* A loaded value that is a non-empty list of city configurations.
ValidOverride(loaded) ==
    /\ loaded.t = "list"
    /\ Len(loaded.v) > 0
    /\ \A i \in DOMAIN loaded.v :
           /\ "py" \notin DOMAIN loaded.v[i]
           /\ {"id", "name", "country", "coordinates"} \subseteq DOMAIN loaded.v[i]
           /\ {"latitude", "longitude"} \subseteq DOMAIN loaded.v[i].coordinates
           /\ loaded.v[i].coordinates.latitude \in -900000..900000
           /\ loaded.v[i].coordinates.longitude \in -1800000..1800000
           /\ loaded.v[i].id # ""

\* The cities a call returned, none when it raised.
CitiesReturned ==
    IF calc.fn = "get_cities_config"
    THEN IF calc.result.t = "list" THEN << calc.result.v >> ELSE << >>
    ELSE IF calc.result.exc = None THEN << calc.result.cities >> ELSE << >>

\* C27: a CITIES_CONFIG override that is a valid list of city configurations
\* replaces the defaults; any other override (unparsable, of the wrong type or
\* shape, with missing fields or coordinates out of range) gives the four
\* default cities, and nothing is raised.
C27_InvalidOverrideFallsBack ==
    (/\ Returned("_load_cities_from_env") \/ Returned("get_cities_config")
     /\ calc.args.set
     /\ calc.args.loads # [t |-> "list", v |-> << >>]) =>
        IF ValidOverride(calc.args.loads)
        THEN CitiesReturned = << calc.args.loads.v >>
        ELSE CitiesReturned = << DEFAULT_CITIES >>

\* CITIES_CONFIG=null: the loader of weather_service.config raises TypeError.
C27_Witness ==
    /\ Returned("_load_cities_from_env")
    /\ calc.args.set
    /\ calc.args.loads.t = "null"
    /\ calc.result.exc # None
    /\ calc.result.exc.type = "TypeError"

\* A list whose only city has no id: the Lambda handler takes it as it is.
C27_WitnessHandler ==
    /\ Returned("get_cities_config")
    /\ calc.args.set
    /\ ~ValidOverride(calc.args.loads)
    /\ calc.args.loads.t = "list"
    /\ Len(calc.args.loads.v) = 1
    /\ calc.result = calc.args.loads

-----------------------------------------------------------------------------
(* The cache round trip *)

\* C28: a valid CityWeatherData that is serialized for the cache and whose
\* stored item is deserialized at any time within its TTL comes back, equal
\* to the original in every field.
C28_RoundTrip ==
    (/\ Returned("round_trip")
     /\ ~_is_expired(calc.item.ttl, calc.args.t + calc.args.delay)) =>
        /\ calc.result.exc = None
        /\ calc.result.data = calc.args.weather_data

\* A record whose forecast is for the day it is stored on, stored two seconds
\* before midnight and read at midnight, within its TTL: deserializing fails.
C28_Witness ==
    /\ Returned("round_trip")
    /\ ~_is_expired(calc.item.ttl, calc.args.t + calc.args.delay)
    /\ calc.args.weather_data.forecast.date = Today(calc.args.t)
    /\ Today(calc.args.t + calc.args.delay) > Today(calc.args.t)
    /\ calc.result.exc # None
    /\ calc.result.exc.type = "CacheOperationError"

\* The same record read before midnight comes back equal in every field.
C28_WitnessSameDay ==
    /\ Returned("round_trip")
    /\ calc.args.weather_data.forecast.date = Today(calc.args.t)
    /\ calc.args.delay > 0
    /\ Today(calc.args.t + calc.args.delay) = Today(calc.args.t)
    /\ calc.result.exc = None
    /\ calc.result.data = calc.args.weather_data

-----------------------------------------------------------------------------
(* The scan of the cache and the errors of the cache client *)

\* The cities whose stored item had not expired when the scan ran and holds
\* weather data.
LiveEntries ==
    {c \in CityIds : /\ table[c] # NoItem
                     /\ "ttl" \in DOMAIN table[c]
                     /\ cacheOp.at < table[c].ttl
                     /\ "weather_data" \in DOMAIN table[c]}

\* C29: get_all_cached_weather returns exactly the stored entries that have
\* not expired and can be deserialized: expired entries are left out, and a
\* corrupt entry is skipped, the scan going on to return the other entries.
C29_ScanReturnsLiveEntries ==
    cacheOp.op = "get_all" =>
        IF cacheOp.exc = None
        THEN /\ Len(cacheOp.result) = Cardinality(LiveEntries)
             /\ \A c \in LiveEntries :
                    /\ written[c] # NoItem
                    /\ \E i \in 1..Len(cacheOp.result) :
                           cacheOp.result[i] = written[c].data
        ELSE cacheOp.exc \in {StoreError(kind, "Failed to get all cached weather") :
                                 kind \in {"down", "no table", "unreachable",
                                           "no resource"}}

\* A scan over a live entry and a corrupt one returned the live entry.
C29_Witness ==
    /\ cacheOp.op = "get_all"
    /\ cacheOp.exc = None
    /\ Len(cacheOp.result) = 1
    /\ \E c \in CityIds : /\ table[c] # NoItem
                          /\ "ttl" \in DOMAIN table[c]
                          /\ cacheOp.at < table[c].ttl
                          /\ "weather_data" \notin DOMAIN table[c]

\* A scan over a live entry and an expired one returned the live entry.
C29_WitnessExpired ==
    /\ cacheOp.op = "get_all"
    /\ cacheOp.exc = None
    /\ Len(cacheOp.result) = 1
    /\ \E c \in CityIds : /\ written[c] # NoItem
                          /\ table[c] # NoItem
                          /\ "ttl" \in DOMAIN table[c]
                          /\ cacheOp.at >= table[c].ttl

\* C30: get_cached_weather and set_cached_weather raise CacheConnectionError
\* when the store is unreachable or misconfigured (no table, no client or table
\* connection, a transport error), and CacheOperationError for every other
\* failure.
C30_ErrorClasses ==
    [][(cacheOp' # cacheOp /\ cacheOp'.op \in {"get", "set"}) =>
          /\ dynamo \in {"no resource", "no table", "unreachable"} =>
                 /\ cacheOp'.exc # None
                 /\ cacheOp'.exc.type = "CacheConnectionError"
          /\ (dynamo \in {"up", "down"} /\ cacheOp'.exc # None) =>
                 cacheOp'.exc.type = "CacheOperationError"]_vars

\* A lookup whose table reference could not be created raised
\* CacheOperationError.
C30_Witness ==
    /\ cacheOp.op = "get"
    /\ dynamo = "no resource"
    /\ cacheOp.exc # None
    /\ cacheOp.exc.type = "CacheOperationError"

-----------------------------------------------------------------------------
(* The health route *)

\* C40: the dispatcher does not look at the method of a request to /health:
\* whatever the method, OPTIONS apart, the answer is the 200 health response;
\* 405 is answered on the paths / and /weather only.
C40_HealthAnyMethod ==
    (Invoked /\ event # RawEvent) =>
        /\ (PathOf(event) = "/health" /\ MethodOf(event) # "OPTIONS") =>
               /\ handled = "health"
               /\ response.statusCode = 200
               /\ response.body.json.status = "healthy"
        /\ response.statusCode = 405 => PathOf(event) \in {"/", "/weather"}

\* POST /health was answered with the health response.
C40_Witness ==
    /\ event = [httpMethod |-> "POST", path |-> "/health"]
    /\ handled = "health"
    /\ response.statusCode = 200
    /\ response.body.json.status = "healthy"

-----------------------------------------------------------------------------
(* The forecast of tomorrow *)

\* The series of the call, the entries of it that are dated tomorrow, and
\* those of them whose hour is between 10 and 14.
SeriesOfCall == calc.args.api_response.properties.timeseries
WellFormed == \A i \in 1..Len(SeriesOfCall) : Parses(SeriesOfCall[i].time)
DatedTomorrow ==
    {i \in 1..Len(SeriesOfCall) :
        SeriesOfCall[i].time.wall \div SECONDS_PER_DAY
            = (calc.args.t \div SECONDS_PER_DAY) + 1}
AroundNoon ==
    {i \in DatedTomorrow :
        (SeriesOfCall[i].time.wall % SECONDS_PER_DAY) \div HOUR \in 10..14}

\* C31: extract_tomorrow_forecast of the transformers returns the first entry
\* of the series that is dated tomorrow with an hour from 10 to 14, else the
\* first entry dated tomorrow, and no forecast when the series is empty or has
\* no entry dated tomorrow; parse_met_no_response then raises ValidationError.
C31_SameDayPolicy ==
    /\ (Returned("extract_tomorrow_forecast") /\ WellFormed) =>
           IF AroundNoon # {}
           THEN calc.result = ForecastData(SeriesOfCall[FirstOf(AroundNoon)])
           ELSE IF DatedTomorrow # {}
           THEN calc.result = ForecastData(SeriesOfCall[FirstOf(DatedTomorrow)])
           ELSE calc.result = None
    /\ (Returned("parse_met_no_response") /\ WellFormed) =>
           IF DatedTomorrow = {}
           THEN /\ calc.result.exc # None
                /\ calc.result.exc.type = "ValidationError"
           ELSE calc.result.exc = None

\* A series with an entry of tomorrow at 09:00, one at 15:00 and one at
\* 14:59:59: the forecast is that of the third entry.
C31_Witness ==
    /\ Returned("extract_tomorrow_forecast")
    /\ Len(SeriesOfCall) = 3
    /\ WellFormed
    /\ DatedTomorrow = {1, 2, 3}
    /\ AroundNoon = {3}
    /\ calc.result = ForecastData(SeriesOfCall[3])

\* A series with entries of tomorrow, none of them from 10 to 14 o'clock: the
\* forecast is that of the first of them.
C31_WitnessFallback ==
    /\ Returned("extract_tomorrow_forecast")
    /\ WellFormed
    /\ Len(SeriesOfCall) = 3
    /\ DatedTomorrow = {2, 3}
    /\ AroundNoon = {}
    /\ calc.result = ForecastData(SeriesOfCall[2])

\* A series without an entry of tomorrow: parse_met_no_response raised
\* ValidationError.
C31_WitnessNone ==
    /\ Returned("parse_met_no_response")
    /\ WellFormed
    /\ Len(SeriesOfCall) > 0
    /\ DatedTomorrow = {}
    /\ calc.result.exc # None
    /\ calc.result.exc.type = "ValidationError"

-----------------------------------------------------------------------------
(* The pacing delay of the summary *)

\* C32: in get_weather_summary the pacing delay follows a city only when the
\* provider was called for that city and the call succeeded: there is no delay
\* after a city whose processing failed and none after a city served from the
\* cache.
C32_DelayAfterFetchOnly ==
    Summarised =>
        /\ \A i \in 1..Len(cityLog) :
               cityLog[i].slept = IF cityLog[i].src = "api" THEN 1 ELSE 0
        /\ ops.sleeps = Cardinality({i \in 1..Len(cityLog) : cityLog[i].src = "api"})

\* A summary in which a city was served from the cache, with no call of the
\* provider, and was followed by the delay.
C32_Witness ==
    /\ Summarised
    /\ \E i \in 1..Len(cityLog) :
           /\ cityLog[i].src = "cache"
           /\ cityLog[i].met = "none"
           /\ cityLog[i].slept = 1

\* In the same summaries no delay follows a city that failed.
C32_WitnessFailed ==
    /\ Summarised
    /\ \E i \in 1..Len(cityLog) :
           /\ cityLog[i].src = "fallback"
           /\ cityLog[i].slept = 0
    /\ \E i \in 1..Len(cityLog) :
           /\ cityLog[i].src = "api"
           /\ cityLog[i].slept = 1

-----------------------------------------------------------------------------
(* The retries of a client built with its own max_retries *)

\* C33: the network attempts of one fetch are bounded by the max_retries the
\* client was constructed with.
C33_AttemptsWithinMaxRetries ==
    \A k \in Tasks : fetch[k].attempts <= client.max_retries

\* A fetch of a client built with max_retries = 1 that ended after three
\* attempts.
C33_Witness ==
    /\ client.max_retries = 1
    /\ \E k \in Tasks : /\ fetch[k].pc = "done"
                        /\ fetch[k].attempts = MAX_RETRIES

\* No fetch of a client built with max_retries = 5 makes a fourth attempt.
C33_NeverMoreThanClassLimit ==
    \A k \in Tasks : fetch[k].attempts <= MAX_RETRIES


-----------------------------------------------------------------------------
(* The ids of the active city configuration *)

\* The configuration _load_cities_from_env returned, when it returned one.
ActiveConfiguration == calc.result.cities

ConfigurationLoaded ==
    /\ Returned("_load_cities_from_env")
    /\ calc.result.exc = None

\* C34: the city ids of the active configuration, the defaults or an accepted
\* override, are non-empty and pairwise distinct, so that no two per-city
\* tasks of an aggregation work on the same cache key.
C34_IdsNonEmptyAndDistinct ==
    ConfigurationLoaded =>
        /\ \A i \in DOMAIN ActiveConfiguration : ActiveConfiguration[i].id # ""
        /\ \A i, j \in DOMAIN ActiveConfiguration :
              i # j => ActiveConfiguration[i].id # ActiveConfiguration[j].id

\* An override that names the same city twice was accepted as it is.
C34_Witness ==
    /\ ConfigurationLoaded
    /\ calc.args.set
    /\ ActiveConfiguration # DEFAULT_CITIES_CONFIG
    /\ \E i, j \in DOMAIN ActiveConfiguration :
          i # j /\ ActiveConfiguration[i].id = ActiveConfiguration[j].id

\* What the loader does guarantee: no id of the active configuration is empty.
C34_IdsNonEmpty ==
    ConfigurationLoaded =>
        \A i \in DOMAIN ActiveConfiguration : ActiveConfiguration[i].id # ""


-----------------------------------------------------------------------------
(* The aggregation that tolerates failed cities *)

\* C35: process_cities_weather_with_fallback attempts every configured city
\* and returns the records of exactly the cities that succeeded; it raises,
\* and then a WeatherAPIError, if and only if no city succeeded.
C35_FallbackOutcome ==
    procOp.op = "fallback" =>
        /\ procOp.exc # None <=> procOp.done = 0
        /\ procOp.exc # None => IsInstance(procOp.exc, {"WeatherAPIError"})
        /\ procOp.exc = None => Len(procOp.list) = procOp.done

\* The first city was served from the cache, the processing of the next one
\* raised, and the aggregation ended with that ValidationError.
C35_Witness ==
    /\ procOp.op = "fallback"
    /\ procOp.done >= 1
    /\ procOp.done < Len(CITIES_CONFIG)
    /\ procOp.exc # None
    /\ procOp.exc.type = "ValidationError"

\* Every city was served from the cache and the aggregation raised NameError.
C35_WitnessAllSucceeded ==
    /\ procOp.op = "fallback"
    /\ procOp.done = Len(CITIES_CONFIG)
    /\ procOp.use_cache
    /\ procOp.exc # None
    /\ procOp.exc.type = "NameError"

\* No call of the aggregation returns a list.
C35_NeverReturns == procOp.op = "fallback" => procOp.exc # None


-----------------------------------------------------------------------------
(* Rounding of the temperature *)

\* The air temperature of the one entry of the body, in tenths of a degree.
GivenTemperature == calc.args.weather_data.timeseries[1].air_temperature

RoundedForecast ==
    /\ Returned("extract_tomorrow_forecast")
    /\ Len(calc.args.weather_data.timeseries) = 1
    /\ calc.result.exc = None

\* C36: the temperature of the forecast the handler extracts is the entry's
\* air_temperature rounded to the nearest integer, an exact half going to the
\* even neighbour (15.5 to 16, 20.5 to 20), and its unit is always "celsius".
C36_RoundHalfToEven ==
    RoundedForecast =>
        LET value == calc.result.forecast.temperature.value
        IN  /\ Abs(10 * value - GivenTemperature) <= 5
            /\ Abs(10 * value - GivenTemperature) = 5 => value % 2 = 0
            /\ GivenTemperature = 155 => value = 16
            /\ GivenTemperature = 205 => value = 20
            /\ calc.result.forecast.temperature.unit = "celsius"

\* 20.5 degrees came out as 20.
C36_Witness ==
    /\ RoundedForecast
    /\ GivenTemperature = 205
    /\ calc.result.forecast.temperature.value = 20

\* 15.5 degrees came out as 16.
C36_WitnessUp ==
    /\ RoundedForecast
    /\ GivenTemperature = 155
    /\ calc.result.forecast.temperature.value = 16


-----------------------------------------------------------------------------
(* What the cache of the handler holds *)

\* The forecast of the record the except branch returns.
PlaceholderForecast ==
    [temperature |-> [value |-> 0, unit |-> "celsius"],
     condition |-> "unknown",
     description |-> "Data unavailable"]

\* C37: the cache holds only records of a successful fetch and transform:
\* whatever requests were served, no item of the table is a placeholder, no
\* city that got the placeholder record had it written to the cache, and no
\* record served from the cache carries an error field.
C37_NoPlaceholderCached ==
    /\ \A c \in CityIds :
          table[c] # NoItem => table[c].forecast.S.json # PlaceholderForecast
    /\ \A i \in DOMAIN cityLog :
          /\ cityLog[i].src = "fallback" => ~cityLog[i].stored
          /\ cityLog[i].stored => "error" \notin DOMAIN cityLog[i].rec
          /\ cityLog[i].src = "cache" =>
                /\ "error" \notin DOMAIN cityLog[i].rec
                /\ cityLog[i].rec.forecast # PlaceholderForecast

\* A city whose fetch failed got the placeholder record while the table was
\* there to be written, and the table has no item for it.
C37_Witness ==
    /\ tableEnv # Unset
    /\ dynamo = "up"
    /\ \E i \in DOMAIN cityLog :
          /\ cityLog[i].src = "fallback"
          /\ cityLog[i].met # "none"
          /\ "error" \in DOMAIN cityLog[i].rec
          /\ table[cityLog[i].id] = NoItem

\* The second request served one city from the cache and gave another the
\* placeholder record.
C37_WitnessHit ==
    /\ reqs = MaxRequests
    /\ \E i, j \in DOMAIN cityLog :
          /\ cityLog[i].src = "cache"
          /\ cityLog[j].src = "fallback"


-----------------------------------------------------------------------------
(* The exceptions that leave get_weather_forecast *)

\* C38: a failure of get_weather_forecast other than the ValueError of the
\* argument validation is a WeatherAPIError or one of its subtypes: no
\* exception of the transport, no timeout and no parsing error leaves the
\* call as it is, whether the first try failed or the retries ran out.
C38_OnlyWeatherAPIErrors ==
    \A k \in Tasks :
        (Failed(k) /\ ~InvalidArgument(fetch[k].args)) =>
            IsInstance(fetch[k].result, {"WeatherAPIError"})

\* Every try of a fetch met aiohttp's ServerTimeoutError, the retries ran out,
\* and the fetch raised a WeatherAPIError.
C38_Witness ==
    \E k \in Tasks :
        /\ Failed(k)
        /\ provider.meets = Raises("ServerTimeoutError")
        /\ fetch[k].met = {"timeout"}
        /\ fetch[k].attempts = MAX_RETRIES
        /\ IsInstance(fetch[k].result, {"WeatherAPIError"})


-----------------------------------------------------------------------------
(* The processor without its cache *)

\* A call of process_city_weather with use_cache=false has just ended.
CacheBypassed ==
    /\ procOp.op = "city"
    /\ ~procOp.use_cache
    /\ validate_city_id(procOp.city)

\* C39: process_city_weather called with use_cache=false looks nothing up in
\* the cache and writes nothing to it: the table is after the call what it
\* was before, whether the call returned a record or raised.
C39_CacheUntouched ==
    [][(procOp' # procOp /\ procOp'.op = "city" /\ ~procOp'.use_cache) =>
           /\ table' = table
           /\ procOp'.lookup = "none"
           /\ ~procOp'.stored]_vars

\* The call returned a freshly fetched record while DynamoDB was reachable,
\* and the table has no item of the city.
C39_Witness ==
    /\ CacheBypassed
    /\ dynamo = "up"
    /\ procOp.exc = None
    /\ procOp.fetched
    /\ procOp.record.city_id = procOp.city
    /\ table[procOp.city] = NoItem

\* The call raised what the client had raised.
C39_WitnessFailed ==
    /\ CacheBypassed
    /\ procOp.exc # None
    /\ procOp.exc.type = "APIConnectionError"















====
